---------------------------- MODULE Spec2Model ----------------------------
(***************************************************************************)
(* Sky-Port: the profile-to-record transformation                          *)
(* (src/processors/profile_processor.py, class ProfileProcessor).          *)
(*                                                                         *)
(* A ProfileProcessor holds player_data (one member's save state),         *)
(* profile_data (the whole profile) and processed_data (the last result).  *)
(* process_all_data rebuilds processed_data from the two inputs.           *)
(*                                                                         *)
(* Python values are modelled as follows.                                  *)
(*   dict     a function from strings to values; d.get(k, default) is Get  *)
(*   list     a sequence                                                   *)
(*   number   an experience value is a Python int of any size: see PyInt,  *)
(*            Wide and Huge below; counters and coin amounts are integers  *)
(*   float    a quotient a / b is kept exact, as the pair num, den         *)
(***************************************************************************)
EXTENDS Integers, Sequences, FiniteSets, TLC

VARIABLES
    player_data,      \* self.player_data
    player_data_type, \* type(self.player_data).__name__; player_data is the content of a dict
    profile_data,     \* self.profile_data
    processed_data,   \* self.processed_data
    exc,              \* the exception the last process_all_data call raised, or "none"
    calls,            \* how many times process_all_data has been called
    results,          \* what the calls of process_all_data returned, in order
    now,              \* time.time(), in whole seconds
    rate_limiter,     \* HypixelAPI.rate_limiter: request_times, request_count, window_start
    last_op,          \* the limiter operation that ran last
    can_result,       \* what the last can_make_request returned
    remaining,        \* what the last get_remaining_requests returned
    info,             \* what the last get_rate_limit_info returned
    sent,             \* the times at which _make_request sent an HTTP request
    recorded,         \* the times record_request has recorded
    memory_cache,     \* CacheManager.memory_cache
    cache_stats,      \* CacheManager.cache_stats
    cache_op,         \* the cache operation that ran last, and its key
    cache_ret,        \* what the last get or wrapped call returned
    cache_exc,        \* the exception the last cache operation raised, or "none"
    func,             \* the function cached_function wraps
    executions,       \* how many times the body of the wrapped function has run
    wrapper_results,  \* what the calls of the wrapped function returned, in order
    first_call,       \* the time of the first call of the wrapped function, -1 before it
    session_state,    \* st.session_state of main.py
    looked_up,        \* the UUID the last lookup resolved, PyNone before it
    constructed,      \* the arguments of the last ProfileProcessor(...) of main.py, if any
    main_op           \* the step of main.py that ran last

\* the processor and its callers' view of it
processor_vars ==
    <<player_data, player_data_type, profile_data, processed_data, exc, calls, results>>

\* the rate limiter, its callers' view of it, and the clock
limiter_vars == <<now, rate_limiter, last_op, can_result, remaining, info, sent, recorded>>

\* the cache manager, a function wrapped by cached_function, and its callers' view
cache_vars == <<memory_cache, cache_stats, cache_op, cache_ret, cache_exc, func, executions,
                wrapper_results, first_call>>

\* the interactive layer
main_vars == <<session_state, looked_up, constructed, main_op>>

vars == <<processor_vars, limiter_vars, cache_vars, main_vars>>

---------------------------------------------------------------------------
(* Python dicts *)

EmptyDict == [k \in {} |-> 0]

\* d.get(k, default)
Get(d, k, default) == IF k \in DOMAIN d THEN d[k] ELSE default

\* seq[i] with Python's indexing: 0-based, a negative index counts from the end
PyIndex(seq, i) == IF i < 0 THEN seq[Len(seq) + i + 1] ELSE seq[i + 1]

Min(a, b) == IF a < b THEN a ELSE b

RECURSIVE SumSeq(_)
SumSeq(s) == IF s = <<>> THEN 0 ELSE Head(s) + SumSeq(Tail(s))

---------------------------------------------------------------------------
(* Experience values.  A Python int has no width; the integers of the      *)
(* checker have 32 bits.  An experience value is therefore kept in two     *)
(* limbs, value = hi * Base + lo with 0 <= lo < Base, which reaches 2^61   *)
(* (the dungeon formula clamps at 50 * 2^50).  Huge stands for an int      *)
(* beyond the range of a double (such as 10**400): it compares greater     *)
(* than every threshold, and dividing it raises OverflowError.             *)

Base == 2^30

Wide(h, l) == [huge |-> FALSE, hi |-> h, lo |-> l]

PyInt(n) == Wide(n \div Base, n % Base)

Huge == [huge |-> TRUE, hi |-> 0, lo |-> 0]

\* x < n, for an experience value x and an integer n
NumLt(x, n) ==
    /\ ~x.huge
    /\ \/ x.hi < n \div Base
       \/ x.hi = n \div Base /\ x.lo < n % Base

\* x as an integer (for |x| < 2^31)
AsInt(x) == x.hi * Base + x.lo

\* x + y
NumAdd(x, y) ==
    IF x.huge \/ y.huge THEN Huge
    ELSE LET s == x.lo + y.lo IN Wide(x.hi + y.hi + s \div Base, s % Base)

\* x // 2^k, for x >= 0 and k <= 60
NumShr(x, k) ==
    IF k <= 30 THEN Wide(x.hi \div 2^k, x.lo \div 2^k + (x.hi % 2^k) * 2^(30 - k))
    ELSE Wide(0, x.hi \div 2^(k - 30))

RECURSIVE NumSum(_)
NumSum(s) == IF s = <<>> THEN PyInt(0) ELSE NumAdd(Head(s), NumSum(Tail(s)))

---------------------------------------------------------------------------
(* Class constants *)

SKILL_XP == <<
    0, 50, 175, 375, 675, 1175, 1925, 2925, 4425, 6425, 9925, 14925, 22425, 32425, 47425, 67425, 97425,
    147425, 222425, 322425, 522425, 822425, 1222425, 1722425, 2322425, 3022425, 3822425, 4722425, 5722425,
    6822425, 8022425, 9322425, 10722425, 12222425, 13822425, 15522425, 17322425, 19222425, 21222425,
    23322425, 25522425, 27822425, 30222425, 32722425, 35322425, 38072425, 40972425, 44072425, 47472425,
    51172425, 55172425, 59472425, 64072425, 68972425, 74172425, 79672425, 85472425, 91572425, 97972425,
    104672425, 111672425 >>

\* SLAYERS: boss key and display name, in declaration order
SLAYERS == <<
    <<"zombie", "Revenant Horror">>,
    <<"spider", "Tarantula Broodfather">>,
    <<"wolf", "Sven Packmaster">>,
    <<"enderman", "Voidgloom Seraph">>,
    <<"blaze", "Inferno Demonlord">> >>

slayer_xp_requirements == <<0, 5, 15, 200, 1000, 5000, 20000, 100000, 400000, 1000000>>

\* the local list skills of _process_skills
skills == <<"farming", "mining", "combat", "foraging", "fishing", "enchanting",
            "alchemy", "carpentry", "runecrafting", "taming", "social">>

\* the local list classes of _process_dungeons
classes == <<"healer", "mage", "berserk", "archer", "tank">>

\* f'SKILL_{skill.upper()}'
SkillKey(skill) ==
    CASE skill = "farming" -> "SKILL_FARMING"
      [] skill = "mining" -> "SKILL_MINING"
      [] skill = "combat" -> "SKILL_COMBAT"
      [] skill = "foraging" -> "SKILL_FORAGING"
      [] skill = "fishing" -> "SKILL_FISHING"
      [] skill = "enchanting" -> "SKILL_ENCHANTING"
      [] skill = "alchemy" -> "SKILL_ALCHEMY"
      [] skill = "carpentry" -> "SKILL_CARPENTRY"
      [] skill = "runecrafting" -> "SKILL_RUNECRAFTING"
      [] skill = "taming" -> "SKILL_TAMING"
      [] skill = "social" -> "SKILL_SOCIAL"

\* str.title() on the lower-case identifiers the code applies it to
Title(s) ==
    CASE s = "farming" -> "Farming"
      [] s = "mining" -> "Mining"
      [] s = "combat" -> "Combat"
      [] s = "foraging" -> "Foraging"
      [] s = "fishing" -> "Fishing"
      [] s = "enchanting" -> "Enchanting"
      [] s = "alchemy" -> "Alchemy"
      [] s = "carpentry" -> "Carpentry"
      [] s = "runecrafting" -> "Runecrafting"
      [] s = "taming" -> "Taming"
      [] s = "social" -> "Social"
      [] s = "healer" -> "Healer"
      [] s = "mage" -> "Mage"
      [] s = "berserk" -> "Berserk"
      [] s = "archer" -> "Archer"
      [] s = "tank" -> "Tank"

---------------------------------------------------------------------------
(* Level Engine *)

\* the scan with "xp <= required_xp" for "xp < required_xp"
ScanLevelsInclusive(table, xp) ==
    LET exceeding == {level \in 0..(Len(table) - 1) : NumLt(xp, PyIndex(table, level) + 1)}
        first == CHOOSE level \in exceeding : \A other \in exceeding : level <= other
    IN IF exceeding = {} THEN Len(table) - 1 ELSE first - 1

\* for level, required_xp in enumerate(table): if xp < required_xp: return level - 1
\* return len(table) - 1
\* The loop returns at the first index whose threshold exceeds xp.
ScanLevels(table, xp) ==
    LET exceeding == {level \in 0..(Len(table) - 1) : NumLt(xp, PyIndex(table, level))}
        first == CHOOSE level \in exceeding : \A other \in exceeding : level <= other
    IN IF exceeding = {} THEN Len(table) - 1 ELSE first - 1

\* the skill scan with "return level" for "return level - 1"
_calculate_skill_level_unshifted(xp) ==
    LET level == ScanLevels(SKILL_XP, xp)
    IN IF NumLt(xp, SKILL_XP[Len(SKILL_XP)]) THEN level + 1 ELSE level

_calculate_skill_level(xp) == ScanLevels(SKILL_XP, xp)

_calculate_slayer_level(xp) == ScanLevels(slayer_xp_requirements, xp)

\* the distance to the threshold of the current level, not of the next
_xp_to_next_level_current(current_xp, current_level) ==
    IF current_level >= Len(SKILL_XP) - 1 THEN 0
    ELSE PyIndex(SKILL_XP, current_level) - AsInt(current_xp)

_xp_to_next_level(current_xp, current_level) ==
    IF current_level >= Len(SKILL_XP) - 1 THEN 0
    ELSE PyIndex(SKILL_XP, current_level + 1) - AsInt(current_xp)

\* (progress_xp / level_xp_diff) * 100 is kept as the exact quotient num / den
_skill_progress_percent(current_xp, current_level) ==
    IF current_level >= Len(SKILL_XP) - 1 THEN [num |-> 100, den |-> 1]
    ELSE LET current_level_xp == PyIndex(SKILL_XP, current_level)
             next_level_xp == PyIndex(SKILL_XP, current_level + 1)
             progress_xp == AsInt(current_xp) - current_level_xp
             level_xp_diff == next_level_xp - current_level_xp
         IN IF level_xp_diff > 0
            THEN [num |-> progress_xp * 100, den |-> level_xp_diff]
            ELSE [num |-> 0, den |-> 1]

\* The largest k with 50 * 2^k <= x, for 50 <= x < 2^61: floor(log2(x / 50)) exactly.
FloorLog2Div50(x) ==
    CHOOSE k \in 0..59 : ~NumLt(NumShr(x, k), 50) /\ NumLt(NumShr(x, k + 1), 50)

\* math.log(xp / 50) / math.log(2) is evaluated in IEEE doubles.  For an
\* integer xp the result truncates to the exact floor except just below a
\* boundary 50 * 2^j with j >= 42, where the quotient rounds up to j:
\* LogRoundsUp[j] is the largest d for which xp = 50 * 2^j - d evaluates to j
\* (CPython 3.11, glibc).  Boundaries above j = 49 lie beyond the clamp.
LogRoundsUp ==
    (42 :> 1) @@ (43 :> 1) @@ (44 :> 4) @@ (45 :> 5) @@
    (46 :> 16) @@ (47 :> 8) @@ (48 :> 91) @@ (49 :> 129)

\* int(math.log(xp / 50) / math.log(2)), for xp >= 50 within the range of a double
IntLog2Div50(xp) ==
    LET k == FloorLog2Div50(xp)
    IN IF /\ k + 1 \in DOMAIN LogRoundsUp
          /\ FloorLog2Div50(NumAdd(xp, PyInt(LogRoundsUp[k + 1]))) > k
       THEN k + 1 ELSE k

\* xp / 50 raises OverflowError for an int too large for a float
_calculate_dungeon_level_raises(xp) == ~NumLt(xp, 50) /\ xp.huge

\* a level beyond the cap starts again from 0 instead of being clamped
_calculate_dungeon_level_wrapped(xp) ==
    IF NumLt(xp, 50) THEN 0 ELSE (IntLog2Div50(xp) + 1) % 51

_calculate_dungeon_level(xp) ==
    IF NumLt(xp, 50) THEN 0 ELSE Min(50, IntLog2Div50(xp) + 1)

---------------------------------------------------------------------------
(* Extractors *)

PyNone == "<None>"

\* datetime.fromtimestamp(last_save / 1000) as its '%Y-%m-%d %H:%M:%S' text (in
\* UTC), for the timestamps the inputs use
FromTimestampMs(ms) ==
    CASE ms = 1000 -> "1970-01-01 00:00:01"
      [] ms = 86400000 -> "1970-01-02 00:00:00"

_process_profile_info(pd, prof) ==
    LET last_save == Get(pd, "last_save", 0)
    IN [data |-> << [profile_name |-> Get(prof, "cute_name", "Unknown"),
                     game_mode |-> Get(prof, "game_mode", "normal"),
                     last_save |-> IF last_save # 0 THEN FromTimestampMs(last_save)
                                                    ELSE "Unknown",
                     fairy_souls |-> Get(pd, "fairy_souls_collected", 0),
                     fairy_exchanges |-> Get(pd, "fairy_exchanges", 0),
                     deaths |-> Get(Get(pd, "stats", EmptyDict), "deaths", 0)] >>,
        summary |-> [profile_name |-> Get(prof, "cute_name", "Unknown"),
                     game_mode |-> Get(prof, "game_mode", "normal"),
                     last_active |-> IF last_save # 0 THEN FromTimestampMs(last_save)
                                                      ELSE PyNone]]

\* only social left out
ExcludedSocialOnly == {"social"}

\* the skills left out of the skill average
ExcludedFromAverage == {"social", "carpentry"}

_process_skills(pd) ==
    LET skill_xp == Get(pd, "experience_skill", EmptyDict)
        record(skill) ==
            LET xp == Get(skill_xp, SkillKey(skill), PyInt(0))
                level == _calculate_skill_level(xp)
            IN [skill |-> Title(skill),
                level |-> level,
                xp |-> xp,
                xp_to_next |-> _xp_to_next_level(xp, level),
                progress_percent |-> _skill_progress_percent(xp, level)]
        skills_data == [i \in 1..Len(skills) |-> record(skills[i])]
        counted == SelectSeq([i \in 1..Len(skills) |-> i],
                             LAMBDA i : skills[i] \notin ExcludedFromAverage)
        total_level == SumSeq([k \in 1..Len(counted) |-> skills_data[counted[k]].level])
        counted_skills == Len(counted)
        skill_average == IF counted_skills > 0
                         THEN [num |-> total_level, den |-> counted_skills]
                         ELSE [num |-> 0, den |-> 1]
    IN [data |-> skills_data,
        average |-> skill_average,
        summary |-> [skill_average |-> skill_average,
                     total_skills |-> Len(skills),
                     maxed_skills |-> Len(SelectSeq(skills_data, LAMBDA s : s.level >= 50))]]

\* the counters read one tier lower
TierKeyFromZero(tier) ==
    CASE tier = 1 -> "boss_kills_tier_0"
      [] tier = 2 -> "boss_kills_tier_1"
      [] tier = 3 -> "boss_kills_tier_2"
      [] tier = 4 -> "boss_kills_tier_3"

\* 'boss_kills_tier_{}'.format(tier)
TierKey(tier) ==
    CASE tier = 1 -> "boss_kills_tier_1"
      [] tier = 2 -> "boss_kills_tier_2"
      [] tier = 3 -> "boss_kills_tier_3"
      [] tier = 4 -> "boss_kills_tier_4"

_process_slayers(pd) ==
    LET slayer_bosses == Get(pd, "slayer_bosses", EmptyDict)
        record(entry) ==
            LET slayer_data == Get(slayer_bosses, entry[1], EmptyDict)
                xp == Get(slayer_data, "xp", PyInt(0))
                boss_kills == [tier \in 1..4 |-> Get(slayer_data, TierKey(tier), 0)]
            IN [slayer |-> entry[2],
                xp |-> xp,
                level |-> _calculate_slayer_level(xp),
                tier_1_kills |-> boss_kills[1],
                tier_2_kills |-> boss_kills[2],
                tier_3_kills |-> boss_kills[3],
                tier_4_kills |-> boss_kills[4],
                total_kills |-> SumSeq(boss_kills)]
        slayers_data == [i \in 1..Len(SLAYERS) |-> record(SLAYERS[i])]
    IN [data |-> slayers_data,
        summary |-> [total_slayer_xp |->
                         NumSum([i \in 1..Len(slayers_data) |-> slayers_data[i].xp]),
                     total_kills |->
                         SumSeq([i \in 1..Len(slayers_data) |-> slayers_data[i].total_kills]),
                     maxed_slayers |-> Len(SelectSeq(slayers_data, LAMBDA s : s.level >= 9))]]

\* the floors counted from 1: str(i + 1)
FloorKeyFromOne(i) ==
    CASE i = 0 -> "1" [] i = 1 -> "2" [] i = 2 -> "3" [] i = 3 -> "4"
      [] i = 4 -> "5" [] i = 5 -> "6" [] i = 6 -> "7" [] i = 7 -> "8"

\* str(i) for i in range(8)
FloorKey(i) ==
    CASE i = 0 -> "0" [] i = 1 -> "1" [] i = 2 -> "2" [] i = 3 -> "3"
      [] i = 4 -> "4" [] i = 5 -> "5" [] i = 6 -> "6" [] i = 7 -> "7"

_process_dungeons(pd) ==
    LET dungeons == Get(pd, "dungeons", EmptyDict)
        catacombs == Get(Get(dungeons, "dungeon_types", EmptyDict), "catacombs", EmptyDict)
        cata_xp == Get(catacombs, "experience", PyInt(0))
        cata_level == _calculate_dungeon_level(cata_xp)
        dungeon_data == << [type |-> "Catacombs",
                            level |-> cata_level,
                            xp |-> cata_xp,
                            highest_floor |-> Get(catacombs, "highest_tier_completed", 0)] >>
        player_classes == Get(dungeons, "player_classes", EmptyDict)
        class_record(class_name) ==
            LET class_info == Get(player_classes, class_name, EmptyDict)
                class_xp == Get(class_info, "experience", PyInt(0))
            IN [class |-> Title(class_name),
                level |-> _calculate_dungeon_level(class_xp),
                xp |-> class_xp]
        class_data == [i \in 1..Len(classes) |-> class_record(classes[i])]
    IN [data |-> dungeon_data \o class_data,
        summary |-> [catacombs_level |-> cata_level,
                     highest_floor |-> Get(catacombs, "highest_tier_completed", 0),
                     total_runs |->
                         SumSeq([i \in 1..8 |->
                             Get(Get(catacombs, "tier_completions", EmptyDict),
                                 FloorKey(i - 1), 0)])]]

\* the experience values _process_dungeons hands to _calculate_dungeon_level
DungeonExperiences(pd) ==
    LET dungeons == Get(pd, "dungeons", EmptyDict)
        catacombs == Get(Get(dungeons, "dungeon_types", EmptyDict), "catacombs", EmptyDict)
        player_classes == Get(dungeons, "player_classes", EmptyDict)
    IN {Get(catacombs, "experience", PyInt(0))} \cup
       {Get(Get(player_classes, classes[i], EmptyDict), "experience", PyInt(0)) :
            i \in 1..Len(classes)}

\* inventory_types: key and display name, in declaration order
inventory_types == <<
    <<"inv_contents", "Main Inventory">>,
    <<"ender_chest_contents", "Ender Chest">>,
    <<"wardrobe_contents", "Wardrobe">>,
    <<"equipment_contents", "Equipment">> >>

_process_inventory(pd) ==
    LET present == SelectSeq(inventory_types, LAMBDA t : t[1] \in DOMAIN pd)
        record(t) ==
            LET inv_data == pd[t[1]]
            IN [inventory_type |-> t[2],
                estimated_items |-> IF "data" \in DOMAIN inv_data
                                    THEN Len(Get(inv_data, "data", "")) \div 2 ELSE 0,
                last_updated |-> IF t[1] \in DOMAIN pd THEN "Available" ELSE "Not Available"]
        inventory_data == [i \in 1..Len(present) |-> record(present[i])]
    IN [data |-> inventory_data,
        summary |-> [total_inventories |->
                         Len(SelectSeq(inventory_data, LAMBDA i : i.last_updated = "Available")),
                     estimated_total_items |->
                         SumSeq([i \in 1..Len(inventory_data) |->
                                     inventory_data[i].estimated_items])]]

---------------------------------------------------------------------------
(* Collections.  An item identifier and an unlock marker are strings; the   *)
(* code only splits them at underscores, so each is kept as the sequence of *)
(* its parts between underscores: 'SUGAR_CANE_7' is <<"SUGAR", "CANE", "7">>. *)

\* COLLECTION_CATEGORIES: category and its items, in declaration order
COLLECTION_CATEGORIES == <<
    <<"FARMING", <<
        <<"WHEAT">>, <<"CARROT">>, <<"POTATO">>, <<"PUMPKIN">>, <<"SUGAR",
        "CANE">>, <<"MELON">>, <<"SEEDS">>, <<"MUSHROOM", "COLLECTION">>,
        <<"COCOA">>, <<"CACTUS">>, <<"NETHER", "STALK">> >> >>,
    <<"MINING", <<
        <<"COBBLESTONE">>, <<"COAL">>, <<"IRON", "INGOT">>, <<"GOLD",
        "INGOT">>, <<"DIAMOND">>, <<"LAPIS", "LAZULI">>, <<"EMERALD">>,
        <<"REDSTONE">>, <<"QUARTZ">>, <<"OBSIDIAN">>, <<"GLOWSTONE",
        "DUST">>, <<"GRAVEL">>, <<"ICE">>, <<"NETHERRACK">>, <<"SAND">>,
        <<"END", "STONE">> >> >>,
    <<"COMBAT", <<
        <<"ROTTEN", "FLESH">>, <<"BONE">>, <<"STRING">>, <<"SPIDER",
        "EYE">>, <<"GUNPOWDER">>, <<"ENDER", "PEARL">>, <<"GHAST",
        "TEAR">>, <<"SLIME", "BALL">>, <<"BLAZE", "ROD">>, <<"MAGMA",
        "CREAM">> >> >>,
    <<"FORAGING", <<
        <<"LOG">>, <<"LOG:1">>, <<"LOG:2">>, <<"LOG", "2:1">> >> >>,
    <<"FISHING", <<
        <<"RAW", "FISH">>, <<"RAW", "FISH:1">>, <<"RAW", "FISH:2">>,
        <<"RAW", "FISH:3">>, <<"PRISMARINE", "SHARD">>, <<"PRISMARINE",
        "CRYSTALS">>, <<"CLAY", "BALL">>, <<"WATER", "LILY">>, <<"INK",
        "SACK">>, <<"SPONGE">> >> >> >>

\* item.replace('_', ' ').title()
ItemTitle(item) ==
    CASE item = <<"WHEAT">> -> "Wheat"
      [] item = <<"CARROT">> -> "Carrot"
      [] item = <<"POTATO">> -> "Potato"
      [] item = <<"PUMPKIN">> -> "Pumpkin"
      [] item = <<"SUGAR", "CANE">> -> "Sugar Cane"
      [] item = <<"MELON">> -> "Melon"
      [] item = <<"SEEDS">> -> "Seeds"
      [] item = <<"MUSHROOM", "COLLECTION">> -> "Mushroom Collection"
      [] item = <<"COCOA">> -> "Cocoa"
      [] item = <<"CACTUS">> -> "Cactus"
      [] item = <<"NETHER", "STALK">> -> "Nether Stalk"
      [] item = <<"COBBLESTONE">> -> "Cobblestone"
      [] item = <<"COAL">> -> "Coal"
      [] item = <<"IRON", "INGOT">> -> "Iron Ingot"
      [] item = <<"GOLD", "INGOT">> -> "Gold Ingot"
      [] item = <<"DIAMOND">> -> "Diamond"
      [] item = <<"LAPIS", "LAZULI">> -> "Lapis Lazuli"
      [] item = <<"EMERALD">> -> "Emerald"
      [] item = <<"REDSTONE">> -> "Redstone"
      [] item = <<"QUARTZ">> -> "Quartz"
      [] item = <<"OBSIDIAN">> -> "Obsidian"
      [] item = <<"GLOWSTONE", "DUST">> -> "Glowstone Dust"
      [] item = <<"GRAVEL">> -> "Gravel"
      [] item = <<"ICE">> -> "Ice"
      [] item = <<"NETHERRACK">> -> "Netherrack"
      [] item = <<"SAND">> -> "Sand"
      [] item = <<"END", "STONE">> -> "End Stone"
      [] item = <<"ROTTEN", "FLESH">> -> "Rotten Flesh"
      [] item = <<"BONE">> -> "Bone"
      [] item = <<"STRING">> -> "String"
      [] item = <<"SPIDER", "EYE">> -> "Spider Eye"
      [] item = <<"GUNPOWDER">> -> "Gunpowder"
      [] item = <<"ENDER", "PEARL">> -> "Ender Pearl"
      [] item = <<"GHAST", "TEAR">> -> "Ghast Tear"
      [] item = <<"SLIME", "BALL">> -> "Slime Ball"
      [] item = <<"BLAZE", "ROD">> -> "Blaze Rod"
      [] item = <<"MAGMA", "CREAM">> -> "Magma Cream"
      [] item = <<"LOG">> -> "Log"
      [] item = <<"LOG:1">> -> "Log:1"
      [] item = <<"LOG:2">> -> "Log:2"
      [] item = <<"LOG", "2:1">> -> "Log 2:1"
      [] item = <<"RAW", "FISH">> -> "Raw Fish"
      [] item = <<"RAW", "FISH:1">> -> "Raw Fish:1"
      [] item = <<"RAW", "FISH:2">> -> "Raw Fish:2"
      [] item = <<"RAW", "FISH:3">> -> "Raw Fish:3"
      [] item = <<"PRISMARINE", "SHARD">> -> "Prismarine Shard"
      [] item = <<"PRISMARINE", "CRYSTALS">> -> "Prismarine Crystals"
      [] item = <<"CLAY", "BALL">> -> "Clay Ball"
      [] item = <<"WATER", "LILY">> -> "Water Lily"
      [] item = <<"INK", "SACK">> -> "Ink Sack"
      [] item = <<"SPONGE">> -> "Sponge"

\* category.title()
CategoryTitle(category) ==
    CASE category = "FARMING" -> "Farming"
      [] category = "MINING" -> "Mining"
      [] category = "COMBAT" -> "Combat"
      [] category = "FORAGING" -> "Foraging"
      [] category = "FISHING" -> "Fishing"

RECURSIVE ItemsOf(_)
\* the (category, item) pairs in the order the two nested loops visit them
ItemsOf(categories) ==
    IF categories = <<>> THEN <<>>
    ELSE [i \in 1..Len(Head(categories)[2]) |->
              <<Head(categories)[1], Head(categories)[2][i]>>]
         \o ItemsOf(Tail(categories))

\* int(s) for the text of a tier number; IsIntText tells whether int(s) succeeds
IntTexts == <<"0", "1", "2", "3", "4", "5", "6", "7", "8", "9", "10", "11", "12">>

IsIntText(s) == \E i \in 1..Len(IntTexts) : IntTexts[i] = s

IntOfText(s) == (CHOOSE i \in 1..Len(IntTexts) : IntTexts[i] = s) - 1

\* tier.startswith(f'{item}_')
StartsWithItem(tier, item) ==
    Len(tier) > Len(item) /\ SubSeq(tier, 1, Len(item)) = item

\* the last element of the list for its maximum
LastOf(s, default) == IF s = <<>> THEN default ELSE s[Len(s)]

\* max(list, default=0)
RECURSIVE MaxOf(_, _)
MaxOf(s, default) ==
    IF s = <<>> THEN default
    ELSE LET m == MaxOf(Tail(s), Head(s)) IN IF Head(s) >= m THEN Head(s) ELSE m

\* only a collected amount makes a record, an unlocked tier does not
_process_collections_amount_only(pd) ==
    LET unlocked_tiers == Get(pd, "unlocked_coll_tiers", <<>>)
        collection_xp == Get(pd, "collection", EmptyDict)
        record(pair) ==
            LET item == pair[2]
                amount == Get(collection_xp, item, 0)
                matching == SelectSeq(unlocked_tiers, LAMBDA tier : StartsWithItem(tier, item))
                max_tier == MaxOf([i \in 1..Len(matching) |->
                                       IntOfText(matching[i][Len(matching[i])])], 0)
            IN [collection |-> ItemTitle(item),
                category |-> CategoryTitle(pair[1]),
                amount |-> amount,
                max_tier |-> max_tier]
        all == ItemsOf(COLLECTION_CATEGORIES)
        collections_data ==
            SelectSeq([i \in 1..Len(all) |-> record(all[i])],
                      LAMBDA c : c.amount > 0)
    IN [data |-> collections_data,
        summary |-> [total_collections |-> Len(collections_data),
                     maxed_collections |->
                         Len(SelectSeq(collections_data, LAMBDA c : c.max_tier >= 10)),
                     total_items_collected |->
                         SumSeq([i \in 1..Len(collections_data) |-> collections_data[i].amount])]]

_process_collections(pd) ==
    LET unlocked_tiers == Get(pd, "unlocked_coll_tiers", <<>>)
        collection_xp == Get(pd, "collection", EmptyDict)
        record(pair) ==
            LET item == pair[2]
                amount == Get(collection_xp, item, 0)
                matching == SelectSeq(unlocked_tiers, LAMBDA tier : StartsWithItem(tier, item))
                max_tier == MaxOf([i \in 1..Len(matching) |->
                                       IntOfText(matching[i][Len(matching[i])])], 0)
            IN [collection |-> ItemTitle(item),
                category |-> CategoryTitle(pair[1]),
                amount |-> amount,
                max_tier |-> max_tier]
        all == ItemsOf(COLLECTION_CATEGORIES)
        collections_data ==
            SelectSeq([i \in 1..Len(all) |-> record(all[i])],
                      LAMBDA c : c.amount > 0 \/ c.max_tier > 0)
    IN [data |-> collections_data,
        summary |-> [total_collections |-> Len(collections_data),
                     maxed_collections |->
                         Len(SelectSeq(collections_data, LAMBDA c : c.max_tier >= 10)),
                     total_items_collected |->
                         SumSeq([i \in 1..Len(collections_data) |-> collections_data[i].amount])]]

\* int(...) raises ValueError on a marker of a known item whose last part is no number
_process_collections_raises(pd) ==
    LET unlocked_tiers == Get(pd, "unlocked_coll_tiers", <<>>)
        all == ItemsOf(COLLECTION_CATEGORIES)
    IN \E i \in 1..Len(unlocked_tiers), j \in 1..Len(all) :
          /\ StartsWithItem(unlocked_tiers[i], all[j][2])
          /\ ~IsIntText(unlocked_tiers[i][Len(unlocked_tiers[i])])

\* the first pet of the list taken for the active one
_process_pets_first(pd) ==
    LET pets_data == Get(pd, "pets", <<>>)
        processed_pets ==
            [i \in 1..Len(pets_data) |->
                [type |-> Get(pets_data[i], "type", "Unknown"),
                 tier |-> Get(pets_data[i], "tier", "COMMON"),
                 level |-> Get(pets_data[i], "level", 1),
                 xp |-> Get(pets_data[i], "exp", 0),
                 active |-> Get(pets_data[i], "active", FALSE),
                 held_item |-> Get(pets_data[i], "heldItem", PyNone)]]
        active == processed_pets
    IN [data |-> processed_pets,
        summary |-> [total_pets |-> Len(processed_pets),
                     legendary_pets |->
                         Len(SelectSeq(processed_pets, LAMBDA p : p.tier = "LEGENDARY")),
                     active_pet |-> IF active # <<>> THEN active[1].type ELSE "None"]]

_process_pets(pd) ==
    LET pets_data == Get(pd, "pets", <<>>)
        processed_pets ==
            [i \in 1..Len(pets_data) |->
                [type |-> Get(pets_data[i], "type", "Unknown"),
                 tier |-> Get(pets_data[i], "tier", "COMMON"),
                 level |-> Get(pets_data[i], "level", 1),
                 xp |-> Get(pets_data[i], "exp", 0),
                 active |-> Get(pets_data[i], "active", FALSE),
                 held_item |-> Get(pets_data[i], "heldItem", PyNone)]]
        active == SelectSeq(processed_pets, LAMBDA p : p.active)
    IN [data |-> processed_pets,
        summary |-> [total_pets |-> Len(processed_pets),
                     legendary_pets |->
                         Len(SelectSeq(processed_pets, LAMBDA p : p.tier = "LEGENDARY")),
                     active_pet |-> IF active # <<>> THEN active[1].type ELSE "None"]]

\* the category total and liquid_coins without the bank balance
_process_networth_purse_only(pd, prof) ==
    LET purse == Get(pd, "coin_purse", 0)
        bank == Get(Get(prof, "banking", EmptyDict), "balance", 0)
    IN [data |-> << [category |-> "Coins",
                     purse |-> purse,
                     bank |-> bank,
                     total |-> purse + bank] >>,
        total |-> purse,
        summary |-> [liquid_coins |-> purse,
                     estimated_total |-> purse + bank]]

_process_networth(pd, prof) ==
    LET purse == Get(pd, "coin_purse", 0)
        bank == Get(Get(prof, "banking", EmptyDict), "balance", 0)
    IN [data |-> << [category |-> "Coins",
                     purse |-> purse,
                     bank |-> bank,
                     total |-> purse + bank] >>,
        total |-> purse + bank,
        summary |-> [liquid_coins |-> purse + bank,
                     estimated_total |-> purse + bank]]

_process_misc_stats(pd) ==
    LET stats == Get(pd, "stats", EmptyDict)
        objectives == Get(pd, "objectives", EmptyDict)
    IN [data |-> << [deaths |-> Get(stats, "deaths", 0),
                     kills |-> Get(stats, "kills", 0),
                     items_fished |-> Get(stats, "items_fished", 0),
                     pet_milestone_ores_mined |-> Get(stats, "pet_milestone_ores_mined", 0),
                     auctions_bids |-> Get(stats, "auctions_bids", 0),
                     auctions_won |-> Get(stats, "auctions_won", 0)] >>,
        summary |-> [total_objectives |-> Cardinality(DOMAIN objectives),
                     completed_objectives |->
                         Cardinality({o \in DOMAIN objectives :
                             Get(objectives[o], "status", PyNone) = "COMPLETE"})]]

---------------------------------------------------------------------------
(* Transformer *)

\* process_all_data is called at most MaxCalls times on one processor
MaxCalls == 2

\* a result that carries the number of the call that built it
ProcessedDataNumbered(pd, prof) ==
    [profile_info |-> _process_profile_info(pd, prof),
     skills |-> _process_skills(pd),
     slayers |-> _process_slayers(pd),
     dungeons |-> _process_dungeons(pd),
     inventory |-> _process_inventory(pd),
     collections |-> _process_collections(pd),
     pets |-> _process_pets(pd),
     networth |-> _process_networth(pd, prof),
     misc |-> [data |-> <<>>, summary |-> [call |-> calls]]]

\* the dict process_all_data builds
ProcessedData(pd, prof) ==
    [profile_info |-> _process_profile_info(pd, prof),
     skills |-> _process_skills(pd),
     slayers |-> _process_slayers(pd),
     dungeons |-> _process_dungeons(pd),
     inventory |-> _process_inventory(pd),
     collections |-> _process_collections(pd),
     pets |-> _process_pets(pd),
     networth |-> _process_networth(pd, prof),
     misc |-> _process_misc_stats(pd)]

\* the pet list read as self.player_data['pets']
RaisedWithoutPets(pd) ==
    IF "pets" \notin DOMAIN pd THEN "KeyError"
    ELSE IF \E xp \in DungeonExperiences(pd) : _calculate_dungeon_level_raises(xp)
         THEN "OverflowError"
    ELSE IF _process_collections_raises(pd) THEN "ValueError"
    ELSE "none"

\* the exception that escapes while the dict is built, "none" if none does
Raised(pd) ==
    IF \E xp \in DungeonExperiences(pd) : _calculate_dungeon_level_raises(xp) THEN "OverflowError"
    ELSE IF _process_collections_raises(pd) THEN "ValueError"
    ELSE "none"

\* self.player_data.get('last_save', 0), the first statement that runs: only a
\* dict has the method get
GetRaises(type) == IF type = "dict" THEN "none" ELSE "AttributeError"

\* the extractors written with dict.pop for dict.get: a section read is removed
process_all_data_popping ==
    /\ calls < MaxCalls
    /\ calls' = calls + 1
    /\ exc' = IF GetRaises(player_data_type) # "none" THEN GetRaises(player_data_type)
              ELSE Raised(player_data)
    /\ processed_data' = IF GetRaises(player_data_type) = "none" /\ Raised(player_data) = "none"
                         THEN ProcessedData(player_data, profile_data)
                         ELSE processed_data
    /\ results' = IF GetRaises(player_data_type) = "none" /\ Raised(player_data) = "none"
                  THEN Append(results, processed_data')
                  ELSE results
    /\ player_data' = [k \in DOMAIN player_data \ {"pets", "coin_purse"} |-> player_data[k]]
    /\ UNCHANGED <<player_data_type, profile_data>>
    /\ UNCHANGED <<limiter_vars, cache_vars, main_vars>>

\* process_all_data: processed_data is assigned, and returned, only when no
\* extractor raises
process_all_data ==
    /\ calls < MaxCalls
    /\ calls' = calls + 1
    /\ exc' = IF GetRaises(player_data_type) # "none" THEN GetRaises(player_data_type)
              ELSE Raised(player_data)
    /\ processed_data' = IF GetRaises(player_data_type) = "none" /\ Raised(player_data) = "none"
                         THEN ProcessedData(player_data, profile_data)
                         ELSE processed_data
    /\ results' = IF GetRaises(player_data_type) = "none" /\ Raised(player_data) = "none"
                  THEN Append(results, processed_data')
                  ELSE results
    /\ UNCHANGED <<player_data, player_data_type, profile_data>>
    /\ UNCHANGED <<limiter_vars, cache_vars, main_vars>>

---------------------------------------------------------------------------
(* Inputs.  A processor is constructed on one of the inputs below: sparse   *)
(* profiles that set one section at a time to every value of interest, and *)
(* profiles that leave any subset of the optional sections out.            *)

\* experience values probe each threshold t at t - Delta .. t + Delta
Delta == 1

\* the dungeon formula is probed around 50 * 2^j for j up to MaxDungeonExp
MaxDungeonExp == 51

Offsets == (0 - Delta)..Delta

\* 50 * 2^j, for j <= 55
Pow50(j) ==
    IF j <= 25 THEN PyInt(50 * 2^j)
    ELSE IF j <= 29 THEN Wide((50 * 2^(j - 4)) \div 2^26, ((50 * 2^(j - 4)) % 2^26) * 16)
    ELSE Wide(50 * 2^(j - 30), 0)

\* x < y, for two experience values
NumLess(x, y) ==
    /\ ~x.huge
    /\ \/ y.huge
       \/ x.hi < y.hi
       \/ x.hi = y.hi /\ x.lo < y.lo

SkillProbes == {PyInt(SKILL_XP[i] + d) : i \in 1..Len(SKILL_XP), d \in Offsets}

SlayerProbes ==
    {PyInt(slayer_xp_requirements[i] + d) : i \in 1..Len(slayer_xp_requirements), d \in Offsets}

DungeonProbes ==
    {NumAdd(Pow50(j), PyInt(d)) : j \in 0..MaxDungeonExp, d \in Offsets} \cup
    {NumAdd(Pow50(j), PyInt(0 - LogRoundsUp[j] - e)) : j \in DOMAIN LogRoundsUp, e \in 0..Delta}

\* values far beyond every table: 2^31 - 1, 2^31, 2^60, and an int no double holds
BigProbes == {Wide(1, Base - 1), Wide(2, 0), Wide(Base, 0), Huge}

\* negative experience
NegativeProbes == {PyInt(0 - d) : d \in 1..Delta} \cup {PyInt(0 - 50)}

SkillXps == SkillProbes \cup BigProbes \cup NegativeProbes

SlayerXps == SlayerProbes \cup BigProbes \cup NegativeProbes

DungeonXps == DungeonProbes \cup BigProbes \cup NegativeProbes

SkillInputs ==
    {("experience_skill" :> (SkillKey(skills[i]) :> xp)) : i \in 1..Len(skills), xp \in SkillXps}

\* kill counters take the values 0 .. MaxKills
MaxKills == 2

SlayerInputs ==
    {("slayer_bosses" :> (SLAYERS[i][1] :> ("xp" :> xp))) : i \in 1..Len(SLAYERS), xp \in SlayerXps}

DungeonInputs ==
    {("dungeons" :> ("dungeon_types" :> ("catacombs" :> ("experience" :> xp)))) :
        xp \in DungeonXps} \cup
    {("dungeons" :> ("player_classes" :> (classes[i] :> ("experience" :> xp)))) :
        i \in 1..Len(classes), xp \in DungeonXps}

\* levels 1, 2, 50 and 60
AverageXps == {PyInt(SKILL_XP[2]), PyInt(SKILL_XP[3]), PyInt(SKILL_XP[51]), PyInt(SKILL_XP[61])}

\* one skill at some level, with social and carpentry each absent or at a level
AverageInputs ==
    LET excluded(key, choice) == IF choice = PyInt(0 - 1) THEN EmptyDict ELSE (key :> choice)
    IN {("experience_skill" :>
            ((SkillKey(skills[i]) :> xp) @@ excluded("SKILL_SOCIAL", soc)
                                        @@ excluded("SKILL_CARPENTRY", carp))) :
         i \in 1..Len(skills), xp \in AverageXps,
         soc \in {PyInt(0 - 1), PyInt(SKILL_XP[2]), PyInt(SKILL_XP[61])},
         carp \in {PyInt(0 - 1), PyInt(SKILL_XP[2]), PyInt(SKILL_XP[61])}}

\* a counter of the input: absent (choice -1) or a count
Counter(key, choice) == IF choice < 0 THEN EmptyDict ELSE (key :> choice)

CounterChoices(max) == (0 - 1)..max

\* two bosses with kill counters absent or 0 .. MaxKills, one of them at level 9,
\* and a counter of a tier the processor does not read
SlayerKillInputs ==
    {("slayer_bosses" :>
        (("zombie" :> (("xp" :> PyInt(1000))
                       @@ Counter("boss_kills_tier_1", a)
                       @@ Counter("boss_kills_tier_3", b)))
         @@ ("blaze" :> (("xp" :> PyInt(slayer_xp_requirements[Len(slayer_xp_requirements)]))
                         @@ ("boss_kills_tier_0" :> 9)
                         @@ Counter("boss_kills_tier_2", a)
                         @@ Counter("boss_kills_tier_4", c))))) :
        a \in CounterChoices(MaxKills), b \in CounterChoices(MaxKills),
        c \in CounterChoices(MaxKills)}

\* per-floor completion counters take the values 0 .. MaxRuns
MaxRuns == 2

\* the run track with completion counters of floors 0, 7 and 8 absent or
\* 0 .. MaxRuns, the highest floor absent or 7, and one class with experience
DungeonRunInputs ==
    {("dungeons" :>
        (("dungeon_types" :> ("catacombs" :>
            (("experience" :> PyInt(400))
             @@ Counter("highest_tier_completed", highest)
             @@ ("tier_completions" :>
                    (Counter("0", a)
                     @@ Counter("7", b)
                     @@ Counter("8", c))))))
         @@ ("player_classes" :> ("mage" :> ("experience" :> PyInt(50)))))) :
        a \in CounterChoices(MaxRuns), b \in CounterChoices(MaxRuns),
        c \in CounterChoices(MaxRuns), highest \in {0 - 1, 7}}

\* a pet list holds at most MaxPets pets
MaxPets == 2

\* pets: without any field, active or not, legendary or not
Pets == {
    EmptyDict,
    ("type" :> "WOLF") @@ ("tier" :> "LEGENDARY") @@ ("active" :> TRUE) @@ ("level" :> 100),
    ("type" :> "BEE") @@ ("tier" :> "EPIC") @@ ("active" :> FALSE) @@ ("exp" :> 25),
    ("type" :> "ENDER_DRAGON") @@ ("tier" :> "LEGENDARY") @@ ("heldItem" :> "PET_ITEM_TIER_BOOST"),
    ("type" :> "CAT") @@ ("active" :> TRUE) }

PetInputs == {("pets" :> list) : list \in UNION {[1..n -> Pets] : n \in 0..MaxPets}}

\* an unlocked-tier list holds at most MaxMarkers markers
MaxMarkers == 2

\* unlock markers: tiers 0, 3 and 5 of WHEAT, one of SUGAR_CANE, LOG, LOG_2:1,
\* RAW_FISH:1, and one of an item no category lists
Markers == {<<"WHEAT", "0">>, <<"WHEAT", "3">>, <<"WHEAT", "5">>, <<"SUGAR", "CANE", "7">>,
            <<"LOG", "2">>, <<"LOG", "2:1", "5">>, <<"RAW", "FISH:1", "4">>,
            <<"DRAGON", "SCALE", "1">>}

\* the lists of up to MaxMarkers different markers, in every order
MarkerLists ==
    UNION {{list \in [1..n -> Markers] : \A i, j \in 1..n : i # j => list[i] # list[j]} :
               n \in 0..MaxMarkers}

\* collected amounts: the section absent, or one item at 0 or at an amount
CollectionAmounts == {
    EmptyDict,
    ("collection" :> (<<"WHEAT">> :> 0)),
    ("collection" :> (<<"WHEAT">> :> 120)),
    ("collection" :> ((<<"LOG", "2:1">> :> 7) @@ (<<"SPONGE">> :> 1))) }

CollectionInputs ==
    {("unlocked_coll_tiers" :> list) @@ amounts :
        list \in MarkerLists, amounts \in CollectionAmounts}

\* the optional sections of the member's save state, each with a sample content
Sections == {"experience_skill", "slayer_bosses", "dungeons", "unlocked_coll_tiers",
             "collection", "pets", "coin_purse"}

SampleSection(section) ==
    CASE section = "experience_skill" -> ("SKILL_FARMING" :> PyInt(175))
      [] section = "slayer_bosses" ->
            ("zombie" :> (("xp" :> PyInt(1000)) @@ ("boss_kills_tier_1" :> MaxKills)))
      [] section = "dungeons" ->
            ("dungeon_types" :> ("catacombs" :>
                (("experience" :> PyInt(100)) @@ ("highest_tier_completed" :> 3)
                 @@ ("tier_completions" :> (("0" :> 1) @@ ("3" :> 2))))))
      [] section = "unlocked_coll_tiers" -> << <<"WHEAT", "3">>, <<"SUGAR", "CANE", "7">> >>
      [] section = "collection" -> (<<"WHEAT">> :> 120)
      [] section = "pets" ->
            << ("type" :> "WOLF") @@ ("tier" :> "LEGENDARY") @@ ("active" :> TRUE) >>
      [] section = "coin_purse" -> 1500

\* every subset of the sections present, the others absent
SubsetInputs == {[section \in present |-> SampleSection(section)] : present \in SUBSET Sections}

\* one section present with nested fields missing
NestedInputs == {
    ("experience_skill" :> EmptyDict),
    ("slayer_bosses" :> EmptyDict),
    ("slayer_bosses" :> ("zombie" :> EmptyDict)),
    ("slayer_bosses" :> ("wolf" :> ("boss_kills_tier_4" :> 1))),
    ("dungeons" :> EmptyDict),
    ("dungeons" :> ("dungeon_types" :> EmptyDict)),
    ("dungeons" :> ("dungeon_types" :> ("catacombs" :> EmptyDict))),
    ("dungeons" :> ("dungeon_types" :> ("catacombs" :> ("tier_completions" :> EmptyDict)))),
    ("dungeons" :> ("player_classes" :> EmptyDict)),
    ("dungeons" :> ("player_classes" :> ("mage" :> EmptyDict))),
    ("unlocked_coll_tiers" :> <<>>),
    ("collection" :> EmptyDict),
    ("pets" :> <<>>),
    ("pets" :> << EmptyDict >>),
    ("stats" :> EmptyDict),
    ("objectives" :> ("a" :> EmptyDict)),
    ("inv_contents" :> EmptyDict),
    ("inv_contents" :> ("data" :> "H4sIAAAA")) @@ ("last_save" :> 1000) }

\* a wallet balance with the bank balance inside the member section, in
\* the shape of the profile's banking section or as a scalar
MemberBankInputs == {
    ("coin_purse" :> 1500) @@ ("banking" :> ("balance" :> 2500)),
    ("coin_purse" :> 1500) @@ ("bank_balance" :> 2500),
    ("banking" :> ("balance" :> 40)) }

PlayerInputs ==
    SkillInputs \cup SlayerInputs \cup DungeonInputs \cup AverageInputs
    \cup SubsetInputs \cup NestedInputs \cup CollectionInputs
    \cup SlayerKillInputs \cup DungeonRunInputs \cup PetInputs \cup MemberBankInputs

\* the profile around the member: the banking section absent, empty or filled
ProfileInputs == {
    EmptyDict,
    ("banking" :> EmptyDict),
    ("banking" :> ("balance" :> 2500)) @@ ("cute_name" :> "Apple") }

\* the type of the root handed to the constructor: a mapping, or a list, None
\* or a string
RootTypes == {"dict", "list", "NoneType", "str"}

---------------------------------------------------------------------------
(* RateLimiter (utils/rate_limiter.py) and the HypixelAPI client that owns  *)
(* one (api/hypixel.py).  Time is counted in whole seconds.                 *)

\* RateLimiter(max_requests=100, time_window=300), scaled down
max_requests == 2

time_window == 3

\* the clock stops at MaxTime
MaxTime == 6

\* at most MaxSent HTTP requests are followed within one window
MaxSent == 3

\* RateLimiter.__init__, at time 0
LimiterInit ==
    /\ now = 0
    /\ rate_limiter = [request_times |-> <<>>, request_count |-> 0, window_start |-> 0]
    /\ last_op = "__init__"
    /\ can_result = FALSE
    /\ remaining = max_requests
    /\ info = [requests_made |-> 0, requests_remaining |-> max_requests,
               reset_time |-> time_window, can_make_request |-> TRUE]
    /\ sent = <<>>
    /\ recorded = <<>>

\* [t for t in self.request_times if t >= cutoff_time]
KeptInclusive(request_times, current_time) ==
    SelectSeq(request_times, LAMBDA t : t >= current_time - time_window)

\* [t for t in self.request_times if t > cutoff_time]
Kept(request_times, current_time) ==
    SelectSeq(request_times, LAMBDA t : t > current_time - time_window)

\* _cleanup_old_requests at current_time: the limiter afterwards
_cleanup_old_requests(rl, current_time) ==
    IF current_time - rl.window_start > time_window
    THEN [request_times |-> Kept(rl.request_times, current_time),
          request_count |-> Len(Kept(rl.request_times, current_time)),
          window_start |-> current_time]
    ELSE [rl EXCEPT !.request_times = Kept(rl.request_times, current_time)]

\* the append and the increment of record_request at current_time, then the cleanup
Recording(rl, current_time) ==
    _cleanup_old_requests(
        [rl EXCEPT !.request_times = Append(rl.request_times, current_time),
                   !.request_count = rl.request_count + 1],
        current_time)

\* the times of a history that still lie within the last time_window seconds
InWindow(times, current_time) ==
    SelectSeq(times, LAMBDA t : t > current_time - time_window)

\* time passes
Tick ==
    /\ now < MaxTime
    /\ now' = now + 1
    /\ sent' = InWindow(sent, now')
    /\ recorded' = InWindow(recorded, now')
    /\ UNCHANGED <<rate_limiter, last_op, can_result, remaining, info>>
    /\ UNCHANGED <<processor_vars, cache_vars, main_vars>>

can_make_request ==
    /\ rate_limiter' = _cleanup_old_requests(rate_limiter, now)
    /\ can_result' = (Len(rate_limiter'.request_times) < max_requests)
    /\ last_op' = "can_make_request"
    /\ UNCHANGED <<now, remaining, info, sent, recorded>>
    /\ UNCHANGED <<processor_vars, cache_vars, main_vars>>

\* record_request, called directly after can_make_request returned True
record_request ==
    /\ last_op = "can_make_request" /\ can_result
    /\ rate_limiter' = Recording(rate_limiter, now)
    /\ recorded' = Append(recorded, now)
    /\ last_op' = "record_request"
    /\ UNCHANGED <<now, can_result, remaining, info, sent>>
    /\ UNCHANGED <<processor_vars, cache_vars, main_vars>>

get_remaining_requests ==
    /\ rate_limiter' = _cleanup_old_requests(rate_limiter, now)
    /\ remaining' = IF max_requests - Len(rate_limiter'.request_times) > 0
                    THEN max_requests - Len(rate_limiter'.request_times) ELSE 0
    /\ last_op' = "get_remaining_requests"
    /\ UNCHANGED <<now, can_result, info, sent, recorded>>
    /\ UNCHANGED <<processor_vars, cache_vars, main_vars>>

\* what session.get does: respond with a status, or raise a RequestException
Outcomes == {"200", "403", "429", "500", "RequestException"}

\* HypixelAPI._make_request: the HTTP call takes elapsed seconds
_make_request(outcome, elapsed) ==
    /\ now + elapsed <= MaxTime
    /\ last_op' = "_make_request"
    /\ IF Len(_cleanup_old_requests(rate_limiter, now).request_times) < max_requests
       THEN /\ Len(sent) < MaxSent
            /\ sent' = InWindow(Append(sent, now), now + elapsed)
            /\ now' = now + elapsed
            /\ IF outcome = "RequestException"
               THEN /\ rate_limiter' = _cleanup_old_requests(rate_limiter, now)
                    /\ recorded' = InWindow(recorded, now')
               ELSE /\ rate_limiter' =
                           Recording(_cleanup_old_requests(rate_limiter, now), now')
                    /\ recorded' = InWindow(Append(recorded, now'), now')
       ELSE /\ rate_limiter' = _cleanup_old_requests(rate_limiter, now)
            /\ UNCHANGED <<now, sent, recorded>>
    /\ UNCHANGED <<can_result, remaining, info>>
    /\ UNCHANGED <<processor_vars, cache_vars, main_vars>>

\* HypixelAPI.get_rate_limit_info: the counters are read before
\* can_make_request cleans up
get_rate_limit_info ==
    /\ rate_limiter' = _cleanup_old_requests(rate_limiter, now)
    /\ info' = [requests_made |-> rate_limiter.request_count,
                requests_remaining |-> max_requests - rate_limiter.request_count,
                reset_time |-> rate_limiter.window_start + time_window,
                can_make_request |-> (Len(rate_limiter'.request_times) < max_requests)]
    /\ last_op' = "get_rate_limit_info"
    /\ UNCHANGED <<now, can_result, remaining, sent, recorded>>
    /\ UNCHANGED <<processor_vars, cache_vars, main_vars>>

---------------------------------------------------------------------------
(* CacheManager (utils/cache.py), with one function wrapped by              *)
(* cached_function.  A cache entry's expires_at is a time or None.          *)

\* the keys of the entries set directly, and the key the wrapper generates
\* for the wrapped function and its arguments
DirectKeys == {"a"}

WrapperKey == "md5(func, args)"

\* the time to live of a positive ttl, in seconds
MaxTtl == 2

\* ttl arguments: negative, zero and positive
Ttls == {0 - 1, 0, MaxTtl}

\* get is followed for MaxLookups lookups of the memory cache
MaxLookups == 4

\* the wrapped function is called at most MaxWrapperCalls times
MaxWrapperCalls == 3

\* the wrapped functions: one that returns None, one whose result tells which
\* execution of the body produced it
Funcs == {"returns_none", "counts"}

\* the result of the n-th execution of the body of f
ResultOf(f, n) ==
    IF f = "returns_none" THEN PyNone
    ELSE CASE n = 1 -> "result 1" [] n = 2 -> "result 2" [] n = 3 -> "result 3"
           [] n = 4 -> "result 4" [] OTHER -> "result n"

\* CacheManager.__init__
CacheInit ==
    /\ memory_cache = EmptyDict
    /\ cache_stats = [hits |-> 0, misses |-> 0, evictions |-> 0]
    /\ cache_op = <<"__init__", "">>
    /\ cache_ret = PyNone
    /\ cache_exc = "none"
    /\ executions = 0
    /\ wrapper_results = <<>>
    /\ first_call = 0 - 1

CacheIdle == CacheInit /\ func = "counts"

\* the entry set() stores at current_time
Entry(value, ttl, current_time) ==
    [data |-> value,
     created_at |-> current_time,
     last_accessed |-> current_time,
     expires_at |-> IF ttl > 0 THEN [none |-> FALSE, at |-> current_time + ttl]
                    ELSE [none |-> TRUE, at |-> 0],
     ttl |-> ttl]

\* _is_expired raises TypeError: the key 'expires_at' is always present, and
\* time.time() > None is not defined
_is_expired_raises(cache_entry) == cache_entry.expires_at.none

\* _is_expired, where it does not raise
_is_expired(cache_entry, current_time) ==
    ~cache_entry.expires_at.none /\ current_time > cache_entry.expires_at.at

Without(cache, key) == [k \in DOMAIN cache \ {key} |-> cache[k]]

\* the effect of get(key) at current_time on cache and statistics, with the
\* value it returns and the exception it raises
GetOutcome(cache, stats, key, current_time) ==
    IF key \in DOMAIN cache
    THEN IF _is_expired_raises(cache[key])
         THEN [cache |-> cache, stats |-> stats, ret |-> PyNone, exc |-> "TypeError"]
         ELSE IF ~_is_expired(cache[key], current_time)
         THEN [cache |-> [cache EXCEPT ![key].last_accessed = current_time],
               stats |-> [stats EXCEPT !.hits = @ + 1],
               ret |-> cache[key].data, exc |-> "none"]
         ELSE [cache |-> Without(cache, key),
               stats |-> [stats EXCEPT !.evictions = @ + 1, !.misses = @ + 1],
               ret |-> PyNone, exc |-> "none"]
    ELSE [cache |-> cache, stats |-> [stats EXCEPT !.misses = @ + 1],
          ret |-> PyNone, exc |-> "none"]

\* CacheManager.get
get(key) ==
    /\ cache_stats.hits + cache_stats.misses < MaxLookups
    /\ LET outcome == GetOutcome(memory_cache, cache_stats, key, now)
       IN /\ memory_cache' = outcome.cache
          /\ cache_stats' = outcome.stats
          /\ cache_ret' = outcome.ret
          /\ cache_exc' = outcome.exc
    /\ cache_op' = <<"get", key>>
    /\ UNCHANGED <<func, executions, wrapper_results, first_call>>
    /\ UNCHANGED <<processor_vars, limiter_vars, main_vars>>

\* CacheManager.set
set(key, value, ttl) ==
    /\ memory_cache' = (key :> Entry(value, ttl, now)) @@ memory_cache
    /\ cache_op' = <<"set", key>>
    /\ cache_exc' = "none"
    /\ UNCHANGED <<cache_stats, cache_ret, func, executions, wrapper_results, first_call>>
    /\ UNCHANGED <<processor_vars, limiter_vars, main_vars>>

\* CacheManager.cleanup_expired: the first loop raises before anything is removed
cleanup_expired ==
    /\ IF \E key \in DOMAIN memory_cache : _is_expired_raises(memory_cache[key])
       THEN /\ cache_exc' = "TypeError"
            /\ UNCHANGED <<memory_cache, cache_stats>>
       ELSE LET expired_keys == {key \in DOMAIN memory_cache : _is_expired(memory_cache[key], now)}
            IN /\ cache_exc' = "none"
               /\ memory_cache' = [k \in DOMAIN memory_cache \ expired_keys |-> memory_cache[k]]
               /\ cache_stats' =
                      [cache_stats EXCEPT !.evictions = @ + Cardinality(expired_keys)]
    /\ cache_op' = <<"cleanup_expired", "">>
    /\ UNCHANGED <<cache_ret, func, executions, wrapper_results, first_call>>
    /\ UNCHANGED <<processor_vars, limiter_vars, main_vars>>

\* CacheManager.get_cache_info: 'is_expired': self._is_expired(entry)
get_cache_info ==
    /\ cache_exc' = IF \E key \in DOMAIN memory_cache : _is_expired_raises(memory_cache[key])
                    THEN "TypeError" ELSE "none"
    /\ cache_op' = <<"get_cache_info", "">>
    /\ UNCHANGED <<memory_cache, cache_stats, cache_ret, func, executions, wrapper_results,
                   first_call>>
    /\ UNCHANGED <<processor_vars, limiter_vars, main_vars>>

\* if cached_result is not None: return cached_result -- a miss is a None
IsMiss(outcome) == outcome.ret = PyNone

\* a call of the function wrapped by cached_function(ttl=MaxTtl), with the same arguments
wrapper ==
    /\ Len(wrapper_results) < MaxWrapperCalls
    /\ cache_stats.hits + cache_stats.misses < MaxLookups
    /\ LET outcome == GetOutcome(memory_cache, cache_stats, WrapperKey, now)
           result == ResultOf(func, executions + 1)
       IN IF outcome.exc # "none"
          THEN /\ cache_exc' = outcome.exc
               /\ UNCHANGED <<memory_cache, cache_stats, cache_ret, executions,
                              wrapper_results>>
          ELSE IF ~IsMiss(outcome)
          THEN /\ memory_cache' = outcome.cache
               /\ cache_stats' = outcome.stats
               /\ cache_ret' = outcome.ret
               /\ wrapper_results' = Append(wrapper_results, outcome.ret)
               /\ cache_exc' = "none"
               /\ UNCHANGED executions
          ELSE /\ executions' = executions + 1
               /\ memory_cache' = (WrapperKey :> Entry(result, MaxTtl, now)) @@ outcome.cache
               /\ cache_stats' = outcome.stats
               /\ cache_ret' = result
               /\ wrapper_results' = Append(wrapper_results, result)
               /\ cache_exc' = "none"
    /\ first_call' = IF first_call < 0 THEN now ELSE first_call
    /\ cache_op' = <<"wrapper", WrapperKey>>
    /\ UNCHANGED func
    /\ UNCHANGED <<processor_vars, limiter_vars, main_vars>>

---------------------------------------------------------------------------
(* The interactive layer (main.py): a lookup, the choice of a profile and   *)
(* process_selected_profile, over st.session_state.  An optional value is a *)
(* sequence of length at most one, None being the empty sequence.  A        *)
(* profile's members is an insertion-ordered dict: a sequence of entries.   *)

None == <<>>

Some(x) == <<x>>

\* the players Mojang knows, by UUID
UUIDs == {"uuid1", "uuid2", "uuid3"}

\* a profile has at most MaxMembers members
MaxMembers == 2

\* a lookup returns at most MaxProfiles profiles
MaxProfiles == 2

\* the save state of a member: each player's purse is different
MemberData(uuid) ==
    "coin_purse" :> (CASE uuid = "uuid1" -> 100 [] uuid = "uuid2" -> 200 [] OTHER -> 300)

\* the sequences of at most n different elements of S
RECURSIVE OrderedSubsets(_, _)
OrderedSubsets(S, n) ==
    IF n = 0 THEN {<<>>}
    ELSE {<<>>} \cup UNION {{<<x>> \o rest : rest \in OrderedSubsets(S \ {x}, n - 1)} : x \in S}

UuidsOf(members) == {members[i].uuid : i \in 1..Len(members)}

\* the members dicts of the profiles of uuid: uuid among the members, in any
\* position, and a profile whose members is empty
MembersOf(uuid) ==
    {[i \in 1..Len(order) |-> [data |-> MemberData(order[i]), uuid |-> order[i]]] :
        order \in {o \in OrderedSubsets(UUIDs, MaxMembers) : o = <<>> \/ uuid \in {o[i] : i \in 1..Len(o)}}}

CuteNames == <<"Apple", "Banana", "Cucumber">>

\* the answers of /v2/skyblock/profiles for uuid that carry profiles
ProfileLists(uuid) ==
    UNION {[1..n -> MembersOf(uuid)] : n \in 1..MaxProfiles}

Profiles(members_list) ==
    [i \in 1..Len(members_list) |-> [cute_name |-> CuteNames[i], members |-> members_list[i]]]

\* initialize_session_state
MainInit ==
    /\ session_state = [export_ready |-> FALSE,
                        player_data |-> None,
                        player_uuid |-> PyNone,
                        processed_data |-> None,
                        processing_status |-> PyNone,
                        selected_profile |-> None,
                        selected_profile_index |-> None,
                        skyblock_profiles |-> None]
    /\ looked_up = PyNone
    /\ constructed = None
    /\ main_op = "initialize_session_state"

\* what the lookup can meet: the name is unknown to Mojang, a Hypixel call
\* raises, the player has no profiles, or profiles come back
LookupOutcomes == {"not found", "error", "no profiles", "profiles"}

\* main, "Fetch Profiles" pressed with a username that Mojang resolves to uuid
\* or does not know.  The run that follows a "Process" button has no fetch.
fetch(uuid, outcome, members_list) ==
    /\ session_state.processing_status # "processing"
    /\ IF outcome = "not found"
       THEN UNCHANGED <<session_state, looked_up>>
       ELSE /\ looked_up' = uuid
            /\ session_state' =
                   IF outcome = "profiles"
                   THEN [session_state EXCEPT !.player_uuid = uuid,
                                              !.player_data = Some([uuid |-> uuid]),
                                              !.skyblock_profiles = Profiles(members_list)]
                   ELSE [session_state EXCEPT !.player_uuid = uuid]
    /\ main_op' = "fetch"
    /\ UNCHANGED constructed
    /\ UNCHANGED <<processor_vars, limiter_vars, cache_vars>>

\* display_profiles, the button "Process <profile_name>" of profile i pressed
display_profiles(i) ==
    /\ session_state.processing_status # "processing"
    /\ i \in 1..Len(session_state.skyblock_profiles)
    /\ session_state' = [session_state EXCEPT
                            !.selected_profile = Some(session_state.skyblock_profiles[i]),
                            !.selected_profile_index = Some(i - 1),
                            !.processing_status = "processing"]
    /\ main_op' = "display_profiles"
    /\ UNCHANGED <<looked_up, constructed>>
    /\ UNCHANGED <<processor_vars, limiter_vars, cache_vars>>

\* members.get(uuid, {})
MemberEntry(members, uuid) ==
    IF \E i \in 1..Len(members) : members[i].uuid = uuid
    THEN members[CHOOSE i \in 1..Len(members) : members[i].uuid = uuid].data
    ELSE EmptyDict

\* player_uuid = list(members.keys())[0]; player_data = members.get(player_uuid, {})
FirstMember(members) ==
    [data |-> MemberEntry(members, members[1].uuid), uuid |-> members[1].uuid]

\* process_selected_profile in the run that follows the button.  The keys the
\* optional integrations add to processed_data are computed from the same
\* player_data and are not part of processed_data here.
process_selected_profile ==
    /\ session_state.selected_profile # None
    /\ session_state.processing_status = "processing"
    /\ LET selected_profile == session_state.selected_profile[1]
           members == Get(selected_profile, "members", <<>>)
       IN IF members = <<>>
          THEN /\ session_state' = [session_state EXCEPT !.processing_status = PyNone]
               /\ constructed' = None
          ELSE LET member == FirstMember(members)
               IN /\ constructed' = Some([player_data |-> member.data,
                                          profile_data |-> selected_profile])
                  /\ session_state' =
                         IF Raised(member.data) # "none"
                         THEN [session_state EXCEPT !.player_uuid = member.uuid,
                                                    !.processing_status = PyNone]
                         ELSE [session_state EXCEPT
                                  !.player_uuid = member.uuid,
                                  !.processed_data =
                                      Some(ProcessedData(member.data, selected_profile)),
                                  !.processing_status = "completed",
                                  !.export_ready = TRUE]
    /\ main_op' = "process_selected_profile"
    /\ UNCHANGED looked_up
    /\ UNCHANGED <<processor_vars, limiter_vars, cache_vars>>

---------------------------------------------------------------------------
\* __init__(player_data, profile_data)
ProcessorInit ==
    /\ player_data_type \in RootTypes
    /\ player_data \in IF player_data_type = "dict" THEN PlayerInputs ELSE {EmptyDict}
    /\ profile_data \in IF player_data \in SubsetInputs \cup MemberBankInputs
                         THEN ProfileInputs ELSE {EmptyDict}
    /\ processed_data = EmptyDict
    /\ exc = "none"
    /\ calls = 0
    /\ results = <<>>

Init == ProcessorInit /\ LimiterInit /\ CacheIdle /\ MainInit

Next == process_all_data

Spec == Init /\ [][Next]_vars

\* one processor idle, the limiter in use
ProcessorIdle ==
    /\ player_data_type = "dict"
    /\ player_data = EmptyDict /\ profile_data = EmptyDict
    /\ processed_data = EmptyDict
    /\ exc = "none"
    /\ calls = 0
    /\ results = <<>>

InitLimiter == ProcessorIdle /\ LimiterInit /\ CacheIdle /\ MainInit

NextLimiter ==
    \/ Tick
    \/ can_make_request
    \/ record_request
    \/ get_remaining_requests
    \/ \E outcome \in Outcomes, elapsed \in 0..1 : _make_request(outcome, elapsed)
    \/ get_rate_limit_info

SpecLimiter == InitLimiter /\ [][NextLimiter]_vars

\* the cache in use, processor and limiter idle
InitCache == ProcessorIdle /\ LimiterInit /\ CacheInit /\ func \in Funcs /\ MainInit

NextCache ==
    \/ Tick
    \/ \E key \in DirectKeys : get(key)
    \/ \E key \in DirectKeys, ttl \in Ttls : set(key, "v", ttl)
    \/ cleanup_expired
    \/ get_cache_info
    \/ wrapper

SpecCache == InitCache /\ [][NextCache]_vars

\* the interactive layer in use, the other components idle
InitMain == ProcessorIdle /\ LimiterInit /\ CacheIdle /\ MainInit

NextMain ==
    \/ \E uuid \in UUIDs, outcome \in LookupOutcomes \ {"profiles"} : fetch(uuid, outcome, <<>>)
    \/ \E uuid \in UUIDs : \E members_list \in ProfileLists(uuid) :
           fetch(uuid, "profiles", members_list)
    \/ \E i \in 1..MaxProfiles : display_profiles(i)
    \/ process_selected_profile

SpecMain == InitMain /\ [][NextMain]_vars

---------------------------------------------------------------------------
(* Properties *)

\* process_all_data has returned a result, which processed_data holds
Returned == calls > 0 /\ exc = "none"

SkillRecords == processed_data.skills.data

SlayerRecords == processed_data.slayers.data

DungeonRecords == processed_data.dungeons.data

NonNegative(x) == ~NumLt(x, 0)

\* the greatest index (from 0) of the table whose threshold is <= xp
GreatestIndex(table, xp) ==
    CHOOSE i \in 0..(Len(table) - 1) :
        /\ ~NumLt(xp, table[i + 1])
        /\ \A j \in (i + 1)..(Len(table) - 1) : NumLt(xp, table[j + 1])

\* C1: for a non-negative experience the skill level and the slayer level are
\* the greatest index of their table whose threshold is <= the experience; an
\* experience equal to a threshold yields that threshold's index (slayer 1000
\* gives 4, skill 175 gives 2).
C1_GreatestThreshold ==
    Returned =>
        /\ \A i \in 1..Len(SkillRecords) :
              LET r == SkillRecords[i]
              IN /\ NonNegative(r.xp) => r.level = GreatestIndex(SKILL_XP, r.xp)
                 /\ r.xp = PyInt(175) => r.level = 2
        /\ \A i \in 1..Len(SlayerRecords) :
              LET r == SlayerRecords[i]
              IN /\ NonNegative(r.xp) => r.level = GreatestIndex(slayer_xp_requirements, r.xp)
                 /\ r.xp = PyInt(1000) => r.level = 4

C1_Witness ==
    /\ Returned
    /\ SlayerRecords[1].xp = PyInt(1000) /\ SlayerRecords[1].level = 4
    /\ SkillRecords[1].xp = PyInt(175) /\ SkillRecords[1].level = 2

\* two quotients are the same number
SameQuotient(p, q) == p.num * q.den = q.num * p.den

\* C2: a negative experience is treated as 0 before the lookup: the skill,
\* slayer and dungeon level of a negative experience is 0, and the skill
\* record's xp_to_next and progress_percent are those of experience 0.
C2_NegativeTreatedAsZero ==
    Returned =>
        /\ \A i \in 1..Len(SkillRecords) :
              LET r == SkillRecords[i]
              IN NumLt(r.xp, 0) =>
                    /\ r.level = 0
                    /\ r.xp_to_next = SKILL_XP[2]
                    /\ r.progress_percent.num = 0
        /\ \A i \in 1..Len(SlayerRecords) :
              NumLt(SlayerRecords[i].xp, 0) => SlayerRecords[i].level = 0
        /\ \A i \in 1..Len(DungeonRecords) :
              NumLt(DungeonRecords[i].xp, 0) => DungeonRecords[i].level = 0

\* C3: every skill record has a level within 0..60 and every slayer record a
\* level within 0..9, whatever numbers the experience fields hold.
C3_LevelsInRange ==
    Returned =>
        /\ Len(SkillRecords) = 11
        /\ Len(SlayerRecords) = 5
        /\ \A i \in 1..Len(SkillRecords) : SkillRecords[i].level \in 0..60
        /\ \A i \in 1..Len(SlayerRecords) : SlayerRecords[i].level \in 0..9

\* C4: an experience at or above the final threshold of a table, however
\* large, gives the table's final index (60 for skills, 9 for slayers), the
\* dungeon level never exceeds 50, and the lookup never raises.
C4_Saturation ==
    /\ calls > 0 => exc # "OverflowError"
    /\ Returned =>
          /\ \A i \in 1..Len(SkillRecords) :
                ~NumLt(SkillRecords[i].xp, SKILL_XP[Len(SKILL_XP)])
                    => SkillRecords[i].level = Len(SKILL_XP) - 1
          /\ \A i \in 1..Len(SlayerRecords) :
                ~NumLt(SlayerRecords[i].xp, slayer_xp_requirements[Len(slayer_xp_requirements)])
                    => SlayerRecords[i].level = Len(slayer_xp_requirements) - 1
          /\ \A i \in 1..Len(DungeonRecords) : DungeonRecords[i].level <= 50

\* the level functions on the experience values the inputs use
SkillLevelOf == [x \in SkillXps |-> _calculate_skill_level(x)]

SlayerLevelOf == [x \in SlayerXps |-> _calculate_slayer_level(x)]

DungeonLevelOf == [x \in {d \in DungeonXps : ~d.huge} |-> _calculate_dungeon_level(x)]

\* the non-negative experience values of a set that lie below e2
Below(xps, e2) ==
    IF NumLt(e2, 1) THEN {} ELSE {e1 \in xps : NonNegative(e1) /\ NumLess(e1, e2)}

\* C5: each of the three level functions is monotone on non-negative
\* experience: e1 < e2 implies level(e1) <= level(e2).
C5_Monotone ==
    Returned =>
        /\ \A i \in 1..Len(SkillRecords) : \A e1 \in Below(DOMAIN SkillLevelOf, SkillRecords[i].xp) :
              SkillLevelOf[e1] <= SkillRecords[i].level
        /\ \A i \in 1..Len(SlayerRecords) : \A e1 \in Below(DOMAIN SlayerLevelOf, SlayerRecords[i].xp) :
              SlayerLevelOf[e1] <= SlayerRecords[i].level
        /\ \A i \in 1..Len(DungeonRecords) : \A e1 \in Below(DOMAIN DungeonLevelOf, DungeonRecords[i].xp) :
              DungeonLevelOf[e1] <= DungeonRecords[i].level

C5_Witness ==
    /\ Returned
    /\ DungeonRecords[1].level = 50
    /\ \E e1 \in DOMAIN DungeonLevelOf :
          /\ NumLess(e1, DungeonRecords[1].xp)
          /\ DungeonLevelOf[e1] = 49

\* C6: level(0) = 0 for the skill, slayer and dungeon functions, so a profile
\* with no experience fields has level 0 in every skill, slayer and dungeon
\* record.
C6_LevelZero ==
    Returned =>
        /\ \A i \in 1..Len(SkillRecords) :
              SkillRecords[i].xp = PyInt(0) => SkillRecords[i].level = 0
        /\ \A i \in 1..Len(SlayerRecords) :
              SlayerRecords[i].xp = PyInt(0) => SlayerRecords[i].level = 0
        /\ \A i \in 1..Len(DungeonRecords) :
              DungeonRecords[i].xp = PyInt(0) => DungeonRecords[i].level = 0
        /\ "experience_skill" \notin DOMAIN player_data
              => \A i \in 1..11 : SkillRecords[i].level = 0
        /\ "slayer_bosses" \notin DOMAIN player_data
              => \A i \in 1..5 : SlayerRecords[i].level = 0
        /\ "dungeons" \notin DOMAIN player_data
              => \A i \in 1..6 : DungeonRecords[i].level = 0

C6_Witness ==
    /\ Returned
    /\ player_data = EmptyDict
    /\ \A i \in 1..11 : SkillRecords[i].level = 0
    /\ \A i \in 1..5 : SlayerRecords[i].level = 0
    /\ \A i \in 1..6 : DungeonRecords[i].level = 0

\* C7: a skill record's xp_to_next is SKILL_XP[level + 1] - xp when level < 60
\* and 0 when level = 60; it is never negative for a non-negative xp (xp 175
\* gives level 2 and xp_to_next 200).
C7_XpToNext ==
    Returned =>
        \A i \in 1..Len(SkillRecords) :
            LET r == SkillRecords[i]
            IN /\ r.level < 60 => r.xp_to_next = SKILL_XP[r.level + 2] - AsInt(r.xp)
               /\ r.level = 60 => r.xp_to_next = 0
               /\ NonNegative(r.xp) => r.xp_to_next >= 0
               /\ r.xp = PyInt(175) => r.level = 2 /\ r.xp_to_next = 200

C7_Witness ==
    /\ Returned
    /\ SkillRecords[1].xp = PyInt(175)
    /\ SkillRecords[1].xp_to_next = 200

\* C8: a skill record's progress_percent is
\* (xp - SKILL_XP[level]) / (SKILL_XP[level + 1] - SKILL_XP[level]) * 100 when
\* level < 60 (a level of the table, with a non-zero divisor) and 100 when
\* level = 60; for a non-negative xp it lies within 0..100.
C8_ProgressPercent ==
    Returned =>
        \A i \in 1..Len(SkillRecords) :
            LET r == SkillRecords[i]
                p == r.progress_percent
            IN /\ \/ r.level = 60 /\ p = [num |-> 100, den |-> 1]
                  \/ /\ r.level \in 0..59
                     /\ p.den = SKILL_XP[r.level + 2] - SKILL_XP[r.level + 1]
                     /\ p.den # 0
                     /\ p.num = (AsInt(r.xp) - SKILL_XP[r.level + 1]) * 100
               /\ NonNegative(r.xp) => 0 <= p.num /\ p.num <= 100 * p.den

\* player_data with the experience of one skill set to xp
WithSkill(pd, skill, xp) ==
    ("experience_skill" :>
        ((SkillKey(skill) :> xp) @@ Get(pd, "experience_skill", EmptyDict))) @@ pd

\* the levels, in record order, of the skill records that are neither Social nor Carpentry
CountedLevels(records) ==
    LET counted == SelectSeq(records, LAMBDA r : r.skill \notin {"Social", "Carpentry"})
    IN [i \in 1..Len(counted) |-> counted[i].level]

\* alternative experience values: level 0 and the maximum level
AlternativeXps == {PyInt(0), PyInt(SKILL_XP[Len(SKILL_XP)])}

\* C9: the skill average is the arithmetic mean of the levels of the nine
\* skills other than social and carpentry: changing only the experience of
\* social and carpentry leaves it the same, and changing the level of any
\* other skill changes it.
C9_SkillAverage ==
    Returned /\ "experience_skill" \in DOMAIN player_data =>
        LET average == processed_data.skills.summary.skill_average
            levels == CountedLevels(SkillRecords)
        IN /\ Len(levels) = 9
           /\ average = [num |-> SumSeq(levels), den |-> 9]
           /\ processed_data.skills.average = average
           /\ \A soc \in AlternativeXps, carp \in AlternativeXps :
                 _process_skills(WithSkill(WithSkill(player_data, "social", soc),
                                           "carpentry", carp)).summary.skill_average = average
           /\ \A i \in 1..Len(skills) : \A xp \in AlternativeXps :
                 /\ skills[i] \notin {"social", "carpentry"}
                 /\ _calculate_skill_level(xp) # SkillRecords[i].level
                 => ~SameQuotient(
                        _process_skills(WithSkill(player_data, skills[i], xp)).summary.skill_average,
                        average)

\* social and carpentry at the maximum, another skill above level 0
C9_Witness ==
    /\ Returned
    /\ SkillRecords[8].level = 60 /\ SkillRecords[11].level = 60
    /\ SkillRecords[1].level = 50
    /\ processed_data.skills.summary.skill_average = [num |-> 50, den |-> 9]

\* no present value makes an extractor fail: no dungeon experience is beyond
\* the range of a double, and every unlock marker ends in a number
PresentValuesUsable(pd) ==
    /\ \A xp \in DungeonExperiences(pd) : ~xp.huge
    /\ \A i \in 1..Len(Get(pd, "unlocked_coll_tiers", <<>>)) :
          LET marker == pd["unlocked_coll_tiers"][i] IN IsIntText(marker[Len(marker)])

Zero == PyInt(0)

\* C10: absent optional sections and fields never make the transformation
\* raise or return a partial result: the result holds every category, with
\* the default (0 / empty) values for whatever is absent.
C10_AbsentSectionsDefault ==
    calls > 0 /\ player_data_type = "dict" /\ PresentValuesUsable(player_data) =>
        /\ exc = "none"
        /\ {"skills", "slayers", "dungeons", "collections", "pets", "networth"}
               \subseteq DOMAIN processed_data
        /\ \A category \in {"skills", "slayers", "dungeons", "collections", "pets", "networth"} :
              {"data", "summary"} \subseteq DOMAIN processed_data[category]
        /\ Len(SkillRecords) = 11 /\ Len(SlayerRecords) = 5 /\ Len(DungeonRecords) = 6
        /\ \A i \in 1..Len(skills) :
              SkillKey(skills[i]) \notin DOMAIN Get(player_data, "experience_skill", EmptyDict)
                  => /\ SkillRecords[i].xp = Zero /\ SkillRecords[i].level = 0
                     /\ SkillRecords[i].xp_to_next = 50
                     /\ SkillRecords[i].progress_percent.num = 0
        /\ \A i \in 1..Len(SLAYERS) :
              LET boss == Get(Get(player_data, "slayer_bosses", EmptyDict), SLAYERS[i][1], EmptyDict)
                  r == SlayerRecords[i]
              IN /\ "xp" \notin DOMAIN boss => r.xp = Zero /\ r.level = 0
                 /\ "boss_kills_tier_1" \notin DOMAIN boss => r.tier_1_kills = 0
                 /\ "boss_kills_tier_2" \notin DOMAIN boss => r.tier_2_kills = 0
                 /\ "boss_kills_tier_3" \notin DOMAIN boss => r.tier_3_kills = 0
                 /\ "boss_kills_tier_4" \notin DOMAIN boss => r.tier_4_kills = 0
                 /\ boss = EmptyDict => r.total_kills = 0
        /\ "slayer_bosses" \notin DOMAIN player_data
              => processed_data.slayers.summary =
                     [total_slayer_xp |-> Zero, total_kills |-> 0, maxed_slayers |-> 0]
        /\ LET dungeons == Get(player_data, "dungeons", EmptyDict)
               catacombs == Get(Get(dungeons, "dungeon_types", EmptyDict), "catacombs", EmptyDict)
               player_classes == Get(dungeons, "player_classes", EmptyDict)
           IN /\ "experience" \notin DOMAIN catacombs
                    => DungeonRecords[1].xp = Zero /\ DungeonRecords[1].level = 0
              /\ "highest_tier_completed" \notin DOMAIN catacombs
                    => /\ DungeonRecords[1].highest_floor = 0
                       /\ processed_data.dungeons.summary.highest_floor = 0
              /\ "tier_completions" \notin DOMAIN catacombs
                    => processed_data.dungeons.summary.total_runs = 0
              /\ \A i \in 1..Len(classes) :
                    "experience" \notin DOMAIN Get(player_classes, classes[i], EmptyDict)
                        => DungeonRecords[i + 1].xp = Zero /\ DungeonRecords[i + 1].level = 0
        /\ "unlocked_coll_tiers" \notin DOMAIN player_data /\ "collection" \notin DOMAIN player_data
              => /\ processed_data.collections.data = <<>>
                 /\ processed_data.collections.summary =
                        [total_collections |-> 0, maxed_collections |-> 0,
                         total_items_collected |-> 0]
        /\ "pets" \notin DOMAIN player_data
              => /\ processed_data.pets.data = <<>>
                 /\ processed_data.pets.summary =
                        [total_pets |-> 0, legendary_pets |-> 0, active_pet |-> "None"]
        /\ "coin_purse" \notin DOMAIN player_data => processed_data.networth.data[1].purse = 0
        /\ "balance" \notin DOMAIN Get(profile_data, "banking", EmptyDict)
              => processed_data.networth.data[1].bank = 0
        /\ "coin_purse" \notin DOMAIN player_data /\ "banking" \notin DOMAIN profile_data
              => processed_data.networth.data[1].total = 0

\* the empty mapping has been transformed
C10_Witness ==
    /\ calls > 0
    /\ player_data = EmptyDict /\ profile_data = EmptyDict
    /\ exc = "none"
    /\ Len(SkillRecords) = 11
    /\ processed_data.pets.summary.active_pet = "None"

\* the failures that name a rejected input to the caller
LabelledFailures == {"ValidationError", "TypeError", "ValueError"}

\* C11: on a root that is not a mapping the transformation is aborted with a
\* clearly labelled validation failure and no result is produced; on a
\* mapping root no such failure is raised.
C11_MalformedRoot ==
    calls > 0 =>
        /\ player_data_type # "dict" =>
              exc \in LabelledFailures /\ processed_data = EmptyDict
        /\ player_data_type = "dict" /\ PresentValuesUsable(player_data) => exc = "none"

\* the category names of the output contract
Categories == {"skills", "slayers", "dungeons", "collections", "pets", "networth"}

\* C12: the result maps exactly the six category names to their results: no
\* category is missing and no other key is present.
C12_ExactCategories ==
    Returned => DOMAIN processed_data = Categories

\* C13: every category result has exactly the two keys of the fixed shape, a
\* list of records and a summary mapping, and no further top-level key.
C13_TwoKeyShape ==
    Returned =>
        \A category \in Categories :
            /\ category \in DOMAIN processed_data
            /\ DOMAIN processed_data[category] = {"data", "summary"}

CollectionRecords == processed_data.collections.data

\* the markers of the input, as a set
UnlockedMarkers ==
    LET unlocked_tiers == Get(player_data, "unlocked_coll_tiers", <<>>)
    IN {unlocked_tiers[i] : i \in 1..Len(unlocked_tiers)}

\* the tier numbers of the markers of the exact form <item>_<tier-number>
ExactTiers(item) ==
    {IntOfText(marker[Len(marker)]) :
        marker \in {m \in UnlockedMarkers :
                       /\ Len(m) = Len(item) + 1
                       /\ SubSeq(m, 1, Len(item)) = item
                       /\ IsIntText(m[Len(m)])}}

\* the records emitted for an item
RecordsOf(pair) ==
    SelectSeq(CollectionRecords,
              LAMBDA c : c.collection = ItemTitle(pair[2]) /\ c.category = CategoryTitle(pair[1]))

KnownItems == {ItemsOf(COLLECTION_CATEGORIES)[i] : i \in 1..Len(ItemsOf(COLLECTION_CATEGORIES))}

\* C14: a collection record is present if and only if its amount > 0 or its
\* max_tier > 0: no emitted record has amount = 0 and max_tier = 0, and every
\* known item with amount > 0 or an unlocked tier > 0 is emitted exactly once.
C14_CollectionPresence ==
    Returned =>
        /\ \A i \in 1..Len(CollectionRecords) :
              CollectionRecords[i].amount > 0 \/ CollectionRecords[i].max_tier > 0
        /\ \A pair \in KnownItems :
              /\ Len(RecordsOf(pair)) <= 1
              /\ Get(Get(player_data, "collection", EmptyDict), pair[2], 0) > 0
                 \/ (\E tier \in ExactTiers(pair[2]) : tier > 0)
                    => Len(RecordsOf(pair)) = 1
        /\ Len(CollectionRecords) <= Cardinality(KnownItems)

\* an item with a zero amount and a tier-0 marker only is left out, next to an
\* item that is emitted
C14_Witness ==
    /\ Returned
    /\ <<"WHEAT", "0">> \in UnlockedMarkers
    /\ <<"SUGAR", "CANE", "7">> \in UnlockedMarkers
    /\ "collection" \in DOMAIN player_data /\ player_data["collection"] = (<<"WHEAT">> :> 0)
    /\ Len(CollectionRecords) = 1
    /\ CollectionRecords[1].collection = "Sugar Cane" /\ CollectionRecords[1].max_tier = 7

\* C15: the max_tier of an item is the maximum tier among the markers of the
\* exact form <item>_<tier-number> of that same item, 0 if there is none; a
\* marker of a different item never contributes to it or makes a record of it.
C15_MaxTierOfSameItem ==
    Returned =>
        \A pair \in KnownItems :
            LET tiers == ExactTiers(pair[2])
                max_tier == IF tiers = {} THEN 0
                            ELSE CHOOSE t \in tiers : \A other \in tiers : other <= t
                amount == Get(Get(player_data, "collection", EmptyDict), pair[2], 0)
            IN /\ \A i \in 1..Len(RecordsOf(pair)) : RecordsOf(pair)[i].max_tier = max_tier
               /\ Len(RecordsOf(pair)) > 0 => amount > 0 \/ max_tier > 0

\* the orders of a list
OrdersOf(list) ==
    {[i \in 1..Len(list) |-> list[p[i]]] :
        p \in {q \in [1..Len(list) -> 1..Len(list)] :
                  \A i, j \in 1..Len(list) : i # j => q[i] # q[j]}}

\* the place of a collection record in the declaration order of the items
DeclarationIndex(record) ==
    CHOOSE k \in 1..Len(ItemsOf(COLLECTION_CATEGORIES)) :
        /\ ItemTitle(ItemsOf(COLLECTION_CATEGORIES)[k][2]) = record.collection
        /\ CategoryTitle(ItemsOf(COLLECTION_CATEGORIES)[k][1]) = record.category

\* C16: the records of skills, slayers, dungeons and collections come in the
\* declaration order of the fixed identifier lists, whatever the order of the
\* input: a permuted unlocked-tier list gives the identical record lists.
C16_DeclarationOrder ==
    Returned =>
        /\ \A i \in 1..Len(skills) : SkillRecords[i].skill = Title(skills[i])
        /\ \A i \in 1..Len(SLAYERS) : SlayerRecords[i].slayer = SLAYERS[i][2]
        /\ DungeonRecords[1].type = "Catacombs"
        /\ \A i \in 1..Len(classes) : DungeonRecords[i + 1].class = Title(classes[i])
        /\ \A i, j \in 1..Len(CollectionRecords) :
              i < j => DeclarationIndex(CollectionRecords[i]) < DeclarationIndex(CollectionRecords[j])
        /\ "unlocked_coll_tiers" \in DOMAIN player_data =>
              \A list \in OrdersOf(player_data["unlocked_coll_tiers"]) :
                  LET permuted == ("unlocked_coll_tiers" :> list) @@ player_data
                  IN /\ _process_collections(permuted).data = CollectionRecords
                     /\ _process_skills(permuted).data = SkillRecords
                     /\ _process_slayers(permuted).data = SlayerRecords
                     /\ _process_dungeons(permuted).data = DungeonRecords

\* the markers come in the reverse of the declaration order, the higher tier first
C16_Witness ==
    /\ Returned
    /\ "unlocked_coll_tiers" \in DOMAIN player_data
    /\ player_data["unlocked_coll_tiers"] = << <<"WHEAT", "5">>, <<"WHEAT", "3">> >>
    /\ Len(CollectionRecords) = 1 /\ CollectionRecords[1].max_tier = 5

\* the input of a boss
BossOf(i) == Get(Get(player_data, "slayer_bosses", EmptyDict), SLAYERS[i][1], EmptyDict)

\* the four tier counters of a boss, an absent one counting as 0
TierKills(i) ==
    << Get(BossOf(i), "boss_kills_tier_1", 0), Get(BossOf(i), "boss_kills_tier_2", 0),
       Get(BossOf(i), "boss_kills_tier_3", 0), Get(BossOf(i), "boss_kills_tier_4", 0) >>

\* C17: each slayer record's total_kills is the sum of its four tier kill
\* counts (an absent counter counts as 0); the summary's total_kills is the
\* sum of the 20 counters, total_slayer_xp the sum of the 5 experience values,
\* and maxed_slayers the number of records with level >= 9.
C17_SlayerAggregation ==
    Returned =>
        LET summary == processed_data.slayers.summary
            r == SlayerRecords
        IN /\ Len(r) = 5
           /\ \A i \in 1..5 :
                 /\ <<r[i].tier_1_kills, r[i].tier_2_kills, r[i].tier_3_kills, r[i].tier_4_kills>>
                        = TierKills(i)
                 /\ r[i].total_kills = TierKills(i)[1] + TierKills(i)[2] + TierKills(i)[3]
                                       + TierKills(i)[4]
                 /\ r[i].xp = Get(BossOf(i), "xp", PyInt(0))
           /\ summary.total_kills =
                 SumSeq([i \in 1..5 |-> SumSeq(TierKills(i))])
           /\ summary.total_slayer_xp =
                 NumAdd(NumAdd(NumAdd(NumAdd(r[1].xp, r[2].xp), r[3].xp), r[4].xp), r[5].xp)
           /\ summary.maxed_slayers = Cardinality({i \in 1..5 : r[i].level >= 9})

\* two bosses with kills in different tiers, one boss at level 9
C17_Witness ==
    /\ Returned
    /\ SlayerRecords[1].tier_1_kills = MaxKills /\ SlayerRecords[1].tier_3_kills = 1
    /\ SlayerRecords[5].tier_4_kills = 1 /\ SlayerRecords[5].tier_2_kills = MaxKills
    /\ SlayerRecords[1].total_kills = MaxKills + 1
    /\ processed_data.slayers.summary.total_kills = 2 * MaxKills + 2
    /\ processed_data.slayers.summary.maxed_slayers = 1

\* C18: the dungeon level is 0 below 50 and otherwise min(50, k) for the k >= 1
\* with 50 * 2^(k-1) <= xp < 50 * 2^k, at the exact boundaries too.
C18_DungeonFormula ==
    Returned =>
        \A i \in 1..Len(DungeonRecords) :
            LET r == DungeonRecords[i]
            IN IF NumLt(r.xp, 50) THEN r.level = 0
               ELSE r.level = Min(50, FloorLog2Div50(r.xp) + 1)

\* the input of the run track
CatacombsOf ==
    Get(Get(Get(player_data, "dungeons", EmptyDict), "dungeon_types", EmptyDict),
        "catacombs", EmptyDict)

\* C19: the dungeons category holds six records, the run track then healer,
\* mage, berserk, archer, tank, with level, experience and highest floor
\* defaulting to 0; the summary's catacombs_level is the run-track record's
\* level and total_runs the sum of the completion counters of floors 0..7 only.
C19_DungeonRecords ==
    Returned =>
        LET r == DungeonRecords
            summary == processed_data.dungeons.summary
            completions == Get(CatacombsOf, "tier_completions", EmptyDict)
            player_classes == Get(Get(player_data, "dungeons", EmptyDict),
                                  "player_classes", EmptyDict)
        IN /\ Len(r) = 6
           /\ <<r[1].type, r[2].class, r[3].class, r[4].class, r[5].class, r[6].class>>
                 = <<"Catacombs", "Healer", "Mage", "Berserk", "Archer", "Tank">>
           /\ r[1].xp = Get(CatacombsOf, "experience", PyInt(0))
           /\ r[1].highest_floor = Get(CatacombsOf, "highest_tier_completed", 0)
           /\ \A i \in 1..5 :
                 r[i + 1].xp = Get(Get(player_classes, classes[i], EmptyDict),
                                   "experience", PyInt(0))
           /\ \A i \in 1..6 : r[i].xp = PyInt(0) => r[i].level = 0
           /\ summary.catacombs_level = r[1].level
           /\ summary.highest_floor = r[1].highest_floor
           /\ summary.total_runs =
                 Get(completions, "0", 0) + Get(completions, "1", 0) + Get(completions, "2", 0)
                 + Get(completions, "3", 0) + Get(completions, "4", 0) + Get(completions, "5", 0)
                 + Get(completions, "6", 0) + Get(completions, "7", 0)

\* runs on floors 0 and 7 are counted, the counter of floor 8 is not
C19_Witness ==
    /\ Returned
    /\ Get(Get(CatacombsOf, "tier_completions", EmptyDict), "8", 0) = MaxRuns
    /\ Get(Get(CatacombsOf, "tier_completions", EmptyDict), "0", 0) = 1
    /\ Get(Get(CatacombsOf, "tier_completions", EmptyDict), "7", 0) = MaxRuns
    /\ processed_data.dungeons.summary.total_runs = MaxRuns + 1
    /\ processed_data.dungeons.summary.catacombs_level = 4
    /\ DungeonRecords[3].level = 1

PetRecords == processed_data.pets.data

\* C20: the pets category has one record per entry of the input pet list, in
\* list order; total_pets is the number of records, legendary_pets the number
\* with tier LEGENDARY, and active_pet the type of a record whose active flag
\* is true, or 'None' exactly when no record is active.
C20_Pets ==
    Returned =>
        LET pets == Get(player_data, "pets", <<>>)
            summary == processed_data.pets.summary
        IN /\ Len(PetRecords) = Len(pets)
           /\ \A i \in 1..Len(pets) :
                 /\ PetRecords[i].type = Get(pets[i], "type", "Unknown")
                 /\ PetRecords[i].tier = Get(pets[i], "tier", "COMMON")
                 /\ PetRecords[i].active = Get(pets[i], "active", FALSE)
           /\ summary.total_pets = Len(PetRecords)
           /\ summary.legendary_pets =
                 Cardinality({i \in 1..Len(PetRecords) : PetRecords[i].tier = "LEGENDARY"})
           /\ IF \E i \in 1..Len(PetRecords) : PetRecords[i].active
              THEN /\ summary.active_pet # "None"
                   /\ \E i \in 1..Len(PetRecords) :
                         PetRecords[i].active /\ PetRecords[i].type = summary.active_pet
              ELSE summary.active_pet = "None"
           /\ pets = <<>> =>
                 PetRecords = <<>> /\ summary.total_pets = 0 /\ summary.active_pet = "None"

\* an inactive pet first, then the active one
C20_Witness ==
    /\ Returned
    /\ Len(PetRecords) = 2
    /\ PetRecords[1].type = "ENDER_DRAGON" /\ ~PetRecords[1].active
    /\ PetRecords[2].type = "CAT" /\ PetRecords[2].active
    /\ processed_data.pets.summary =
           [total_pets |-> 2, legendary_pets |-> 1, active_pet |-> "CAT"]

\* the currency record
CoinRecord == processed_data.networth.data[1]

\* C21: the currency record's total is wallet balance plus bank balance, each
\* 0 when absent, and the record total, the category total and liquid_coins
\* all carry that value; wallet 1500 and bank 2500 give 4000.
C21_NetworthTotal ==
    Returned =>
        LET purse == Get(player_data, "coin_purse", 0)
            bank == Get(Get(profile_data, "banking", EmptyDict), "balance", 0)
        IN /\ Len(processed_data.networth.data) = 1
           /\ CoinRecord.purse = purse /\ CoinRecord.bank = bank
           /\ CoinRecord.total = purse + bank
           /\ processed_data.networth.total = purse + bank
           /\ processed_data.networth.summary.liquid_coins = purse + bank
           /\ purse = 1500 /\ bank = 2500 => CoinRecord.total = 4000

C21_Witness ==
    /\ Returned
    /\ Get(player_data, "coin_purse", 0) = 1500
    /\ Get(Get(profile_data, "banking", EmptyDict), "balance", 0) = 2500
    /\ CoinRecord.total = 4000 /\ processed_data.networth.summary.liquid_coins = 4000

\* C22: the bank balance is accepted in both shapes: supplied in the banking
\* section of the profile or inside the member section, the currency record's
\* bank is the supplied balance and the total includes it.
C22_BankBothShapes ==
    Returned =>
        /\ "balance" \in DOMAIN Get(profile_data, "banking", EmptyDict) =>
              /\ CoinRecord.bank = profile_data["banking"]["balance"]
              /\ CoinRecord.total = CoinRecord.purse + profile_data["banking"]["balance"]
        /\ /\ "balance" \notin DOMAIN Get(profile_data, "banking", EmptyDict)
           /\ "balance" \in DOMAIN Get(player_data, "banking", EmptyDict)
           => /\ CoinRecord.bank = player_data["banking"]["balance"]
              /\ CoinRecord.total = CoinRecord.purse + player_data["banking"]["balance"]
        /\ /\ "balance" \notin DOMAIN Get(profile_data, "banking", EmptyDict)
           /\ "bank_balance" \in DOMAIN player_data
           => /\ CoinRecord.bank = player_data["bank_balance"]
              /\ CoinRecord.total = CoinRecord.purse + player_data["bank_balance"]

C24_ReadOnly ==
    [][/\ player_data' = player_data
       /\ player_data_type' = player_data_type
       /\ profile_data' = profile_data
       /\ calls' = calls + 1
       /\ exc' = "none" => /\ processed_data' = ProcessedData(player_data, profile_data)
                           /\ processed_data' = results'[Len(results')]
       /\ exc' # "none" => processed_data' = processed_data]_vars

\* a second call has replaced the result of the first on a non-empty input
C24_Witness ==
    /\ calls = 2 /\ exc = "none"
    /\ "pets" \in DOMAIN player_data /\ "coin_purse" \in DOMAIN player_data
    /\ processed_data = ProcessedData(player_data, profile_data)
    /\ DOMAIN processed_data = DOMAIN results[1]

\* C25: when record_request is called only directly after can_make_request
\* returned true, at non-decreasing times, the recorded requests of the last
\* time_window seconds never number more than max_requests, and
\* can_make_request returns true exactly when they number fewer.
C25_LimiterSafety ==
    /\ [](Len(InWindow(recorded, now)) <= max_requests)
    /\ [][last_op' = "can_make_request" /\ now' = now =>
              can_result' = (Len(InWindow(recorded, now)) < max_requests)]_vars

\* the limiter is full and refuses
C25_Witness ==
    /\ last_op = "can_make_request" /\ ~can_result
    /\ Len(InWindow(recorded, now)) = max_requests
    /\ now > time_window

\* C26: every HTTP request _make_request sends is recorded in the limiter,
\* whatever the outcome, so one client never sends more than max_requests
\* requests within a window of time_window seconds.
C26_EverySendRecorded ==
    /\ Len(InWindow(sent, now)) <= max_requests
    /\ Len(InWindow(sent, now)) <= Len(InWindow(recorded, now))

\* C27: get_rate_limit_info agrees with the limiter: requests_remaining is
\* never negative and equals get_remaining_requests(), and requests_made is
\* the number of requests recorded within the current window.
C27_InfoAgrees ==
    last_op = "get_rate_limit_info" =>
        /\ info.requests_remaining >= 0
        /\ info.requests_remaining = max_requests - Len(rate_limiter.request_times)
        /\ info.requests_made = Len(InWindow(recorded, now))
        /\ rate_limiter.request_count = Len(rate_limiter.request_times)


\* a step of the cache operation name on key, as opposed to the passing of time
CacheStep(name, key) == cache_op' = <<name, key>> /\ now' = now

\* the entry under key is one get must still return at the current time
Live(key) ==
    memory_cache[key].ttl <= 0 \/ now <= memory_cache[key].created_at + memory_cache[key].ttl

\* C28: an entry stored with ttl <= 0 never expires: get returns its value and
\* counts a hit, and cleanup_expired and get_cache_info complete without error
\* and leave it in place; an entry stored with ttl > 0 is returned up to and
\* including created_at + ttl and afterwards get returns None, removes the
\* entry and counts one eviction and one miss.
C28_TtlSemantics ==
    /\ [][\A key \in DirectKeys :
            CacheStep("get", key) /\ key \in DOMAIN memory_cache =>
                IF Live(key)
                THEN /\ cache_exc' = "none"
                     /\ cache_ret' = memory_cache[key].data
                     /\ cache_stats'.hits = cache_stats.hits + 1
                     /\ key \in DOMAIN memory_cache'
                ELSE /\ cache_exc' = "none"
                     /\ cache_ret' = PyNone
                     /\ key \notin DOMAIN memory_cache'
                     /\ cache_stats'.evictions = cache_stats.evictions + 1
                     /\ cache_stats'.misses = cache_stats.misses + 1]_vars
    /\ [][CacheStep("cleanup_expired", "") \/ CacheStep("get_cache_info", "") =>
            /\ cache_exc' = "none"
            /\ \A key \in DOMAIN memory_cache :
                   memory_cache[key].ttl <= 0 => key \in DOMAIN memory_cache']_vars

\* C29: over the calls of a wrapped function with the same arguments made
\* within ttl seconds of the first call, the body has executed exactly once
\* and every call has returned the result of that execution, a None result
\* included.
C29_ExecutedOnce ==
    (first_call >= 0 /\ now <= first_call + MaxTtl /\ wrapper_results # <<>>) =>
        /\ executions = 1
        /\ \A i \in 1..Len(wrapper_results) : wrapper_results[i] = wrapper_results[1]


\* C30: after a lookup has resolved a player UUID and a profile was chosen,
\* process_selected_profile passes to ProfileProcessor the member entry of
\* that UUID, whatever the number and order of the profile's members, and
\* leaves session_state.player_uuid equal to the looked-up UUID.
C30_LookedUpPlayer ==
    (main_op = "process_selected_profile" /\ constructed # None) =>
        /\ constructed[1].player_data =
               MemberEntry(session_state.selected_profile[1].members, looked_up)
        /\ session_state.player_uuid = looked_up

=============================================================================
